---- MODULE Spec2Model ----
(***************************************************************************)
(* A model of the MAXY intent cascade and knowledge synthesis core         *)
(* (backend/models.py, backend/slang_manager.py).                          *)
(*                                                                         *)
(* Texts are TLA+ strings; the Python string operations the code uses      *)
(* (lower, strip, split, "in", re.findall) are computed character by       *)
(* character.  Scores and confidences are exact rationals <<num, den>>.    *)
(* Characters outside ASCII are left out of the literal texts (emoji) or   *)
(* written with an ASCII stand-in (a hyphen for a dash, "* " for a bullet, *)
(* "Link: " for the link sign, "~~~" for a code fence): no operation of    *)
(* the code inspects them.                                                 *)
(***************************************************************************)
EXTENDS Integers, Sequences, FiniteSets, TLC

(***************************************************************************)
(* Python string primitives                                                *)
(***************************************************************************)
UpperChars == "ABCDEFGHIJKLMNOPQRSTUVWXYZ"
LowerChars == "abcdefghijklmnopqrstuvwxyz"
DigitChars == "0123456789"

CharAt(s, i) == SubSeq(s, i, i)

InChars(c, chars) == \E i \in 1..Len(chars) : CharAt(chars, i) = c

\* the character classes as sets of one-character strings
UpperSet ==
    {"A", "B", "C", "D", "E", "F", "G", "H", "I", "J", "K", "L", "M", "N",
     "O", "P", "Q", "R", "S", "T", "U", "V", "W", "X", "Y", "Z"}
LowerSet ==
    {"a", "b", "c", "d", "e", "f", "g", "h", "i", "j", "k", "l", "m", "n",
     "o", "p", "q", "r", "s", "t", "u", "v", "w", "x", "y", "z"}
DigitSet == {"0", "1", "2", "3", "4", "5", "6", "7", "8", "9"}
WordSet == UpperSet \cup LowerSet \cup DigitSet \cup {"_"}

IsUpper(c) == c \in UpperSet
IsLower(c) == c \in LowerSet
IsDigit(c) == c \in DigitSet
\* \w of the re module, on ASCII text
IsWordChar(c) == c \in WordSet
\* str.isspace on the characters the texts contain
IsSpace(c) == c = " " \/ c = "\n" \/ c = "\t"

MapChar(c, from, to) ==
    CharAt(to, CHOOSE i \in 1..Len(from) : CharAt(from, i) = c)

\* the text with the characters at the given positions mapped, the rest of
\* the text is copied piece by piece
RECURSIVE MapAt(_, _, _, _)
MapAt(s, at, from, to) ==
    IF at = {} THEN s
    ELSE LET i == CHOOSE p \in at : \A r \in at : p >= r
         IN  MapAt(SubSeq(s, 1, i - 1), at \ {i}, from, to)
             \o MapChar(CharAt(s, i), from, to) \o SubSeq(s, i + 1, Len(s))

\* str.lower(), str.upper()
Lower(s) == MapAt(s, {i \in 1..Len(s) : IsUpper(CharAt(s, i))}, UpperChars, LowerChars)
Upper(s) == MapAt(s, {i \in 1..Len(s) : IsLower(CharAt(s, i))}, LowerChars, UpperChars)

\* positions where sub occurs in s
Occurrences(s, sub) ==
    {i \in 1..(Len(s) - Len(sub) + 1) : SubSeq(s, i, i + Len(sub) - 1) = sub}

\* Python's  sub in s
Contains(s, sub) == Len(sub) = 0 \/ Occurrences(s, sub) # {}

\* any(x in s for x in list)
ContainsAny(s, list) == \E k \in 1..Len(list) : Contains(s, list[k])

\* sum(1 for x in list if x in s)
CountIn(s, list) == Cardinality({k \in 1..Len(list) : Contains(s, list[k])})

Min(S) == CHOOSE x \in S : \A y \in S : x <= y
Max(S) == 0 - Min({0 - x : x \in S})

StartsWith(s, p) == Len(p) <= Len(s) /\ SubSeq(s, 1, Len(p)) = p
EndsWith(s, p) == Len(p) <= Len(s) /\ SubSeq(s, Len(s) - Len(p) + 1, Len(s)) = p

\* the pieces of s between the separator positions, last piece included
RECURSIVE Pieces(_, _, _, _)
Pieces(s, from, cuts, n) ==
    LET later == {c \in cuts : c >= from}
    IN  IF later = {} THEN <<SubSeq(s, from, Len(s))>>
        ELSE LET i == Min(later)
             IN  <<SubSeq(s, from, i - 1)>> \o Pieces(s, i + n, later, n)

\* str.split(sep) for a non-empty separator: leftmost, non-overlapping
Split(s, sep) == Pieces(s, 1, Occurrences(s, sep), Len(sep))

\* sep.join(parts)
RECURSIVE Join(_, _)
Join(parts, sep) ==
    IF Len(parts) = 0 THEN ""
    ELSE IF Len(parts) = 1 THEN parts[1]
    ELSE parts[1] \o sep \o Join(Tail(parts), sep)

\* str.strip(): leading and trailing whitespace removed
Strip(s) ==
    LET keep == {i \in 1..Len(s) : ~IsSpace(CharAt(s, i))}
    IN  IF keep = {} THEN "" ELSE SubSeq(s, Min(keep), Max(keep))

\* str.strip(chars)
StripChars(s, chars) ==
    LET keep == {i \in 1..Len(s) : ~InChars(CharAt(s, i), chars)}
    IN  IF keep = {} THEN "" ELSE SubSeq(s, Min(keep), Max(keep))

\* the elements of a sequence that satisfy a test, in order
RECURSIVE SelectIdx(_, _)
SelectIdx(seq, keep) ==
    IF Len(seq) = 0 THEN <<>>
    ELSE LET n == Len(seq)
             front == SelectIdx(SubSeq(seq, 1, n - 1), keep)
         IN  IF n \in keep THEN Append(front, seq[n]) ELSE front

\* the pieces of s that start at the k-th start and stop at the k-th end
RECURSIVE Runs(_, _, _)
Runs(s, starts, ends) ==
    IF starts = {} THEN <<>>
    ELSE <<SubSeq(s, Min(starts), Min(ends))>>
         \o Runs(s, starts \ {Min(starts)}, ends \ {Min(ends)})

\* re.findall(r'\b\w+\b', s): the maximal runs of word characters, in order
WordStarts(s) ==
    {i \in 1..Len(s) : IsWordChar(CharAt(s, i))
                       /\ (i = 1 \/ ~IsWordChar(CharAt(s, i - 1)))}

WordEnds(s) ==
    {i \in 1..Len(s) : IsWordChar(CharAt(s, i))
                       /\ (i = Len(s) \/ ~IsWordChar(CharAt(s, i + 1)))}

Words(s) == Runs(s, WordStarts(s), WordEnds(s))

\* str.split() without argument: the maximal runs of non-space characters
TokenStarts(s) ==
    {i \in 1..Len(s) : ~IsSpace(CharAt(s, i))
                       /\ (i = 1 \/ IsSpace(CharAt(s, i - 1)))}

TokenEnds(s) ==
    {i \in 1..Len(s) : ~IsSpace(CharAt(s, i))
                       /\ (i = Len(s) \/ IsSpace(CharAt(s, i + 1)))}

SplitWs(s) == Runs(s, TokenStarts(s), TokenEnds(s))

\* re.search(r'\b' + re.escape(w) + r'\b', s) for a word w of word characters
\* and single spaces
ContainsWord(s, w) ==
    \E i \in Occurrences(s, w) :
        /\ (i = 1 \/ ~IsWordChar(CharAt(s, i - 1)))
        /\ (i + Len(w) - 1 = Len(s) \/ ~IsWordChar(CharAt(s, i + Len(w))))

(***************************************************************************)
(* Exact rationals <<num, den>>, den > 0, for scores and confidences       *)
(***************************************************************************)
Rat(n, d) == <<n, d>>
Pct(n) == <<n, 100>>
RLess(a, b) == a[1] * b[2] < b[1] * a[2]
RLeq(a, b) == a[1] * b[2] <= b[1] * a[2]
REq(a, b) == a[1] * b[2] = b[1] * a[2]
RDouble(a) == <<2 * a[1], a[2]>>
RHalf(a) == <<a[1], 2 * a[2]>>
InUnit(a) == RLeq(<<0, 1>>, a) /\ RLeq(a, <<1, 1>>)

(***************************************************************************)
(* The messages of the model                                               *)
(***************************************************************************)
Messages ==
    {"hello", "", "binary search", "what is gravity", "explain photosynthesis",
     "research the history of rome", "i feel sad", "Who is Marie Curie",
     "Create a line chart with this data: 10, 20, 30", "tell me a joke",
     "weather in Paris", "what time is it", "what is the date today",
     "build a portfolio website", "calculate 2 plus 2", "help", "who are you",
     "gravity", "what is the meaning of life", "stock of AAPL", "macha",
     "enable slang", "disable slang", "Analyze this file"}

\* the messages of the direct calls of MAXY1_3.process_message with a file
FileMessages == {"Analyze this file", "what time is it", "i feel sad"}


\* the three grave accents of a code fence; a string literal cannot hold
\* that character, so the tilde stands for it in every text
Fence == "~~~"

(***************************************************************************)
(* The two knowledge sources.  What they answer is not the program's to    *)
(* decide: a search raises or returns a list, a page loads or raises.      *)
(* The documents below are the ones the sources may serve.                 *)
(***************************************************************************)
PageCurie ==
    [title |-> "Marie Curie",
     summary |-> "Marie Curie was a physicist and chemist who conducted pionee"
                 \o "ring research on radioactivity. She was the first woman to w"
                 \o "in a Nobel Prize. She remains the only person to win in two "
                 \o "scientific fields.\n\nCurie was born in Warsaw and studied in "
                 \o "Paris at the Sorbonne. She discovered the elements polonium "
                 \o "and radium. Her work shaped modern physics and medicine for "
                 \o "generations.",
     url |-> "https://en.wikipedia.org/wiki/Marie_Curie"]

PageGravity ==
    [title |-> "Gravity",
     summary |-> "Gravity is a fundamental interaction that causes mutual attr"
                 \o "action between all things with mass.",
     url |-> "https://en.wikipedia.org/wiki/Gravity"]

PageMercury ==
    [title |-> "Mercury (planet)",
     summary |-> "Mercury is the first planet from the Sun.",
     url |-> "https://en.wikipedia.org/wiki/Mercury_(planet)"]

\* the options the DisambiguationError of an ambiguous title lists
DisambiguationOptions == <<"Mercury (planet)", "Mercury (element)">>

\* Python's None
None == [none |-> TRUE]

\* the titles wikipedia.search may return
WikiTitles == {"Marie Curie", "Gravity", "Mercury", "Atlantis"}

\* wikipedia.page(title, auto_suggest=False): the page, or the exception
\* raised for an ambiguous title or a title without a page
wikipedia_page(title) ==
    IF title = "Marie Curie" THEN [raised |-> "", page |-> PageCurie]
    ELSE IF title = "Gravity" THEN [raised |-> "", page |-> PageGravity]
    ELSE IF title = "Mercury" THEN [raised |-> "DisambiguationError", page |-> None]
    ELSE IF title = "Mercury (planet)" THEN [raised |-> "", page |-> PageMercury]
    ELSE [raised |-> "PageError", page |-> None]

WGravity ==
    [title |-> "Gravity explained",
     body |-> "Gravity is the force that pulls objects toward each other. W"
              \o "hat is gravity in simple terms is the attraction between mas"
              \o "ses. It keeps planets in orbit around the sun. It gives weig"
              \o "ht to physical objects on Earth. It also causes the ocean ti"
              \o "des.",
     href |-> "https://example.org/gravity"]

WForum ==
    [title |-> "Physics forum thread",
     body |-> "A reddit comment about gravity and Marie Curie.",
     href |-> "https://example.org/forum"]

WAlbum ==
    [title |-> "The Man Who Sold the World",
     body |-> "An album by an artist who toured widely.",
     href |-> "https://example.org/album"]

WCode ==
    [title |-> "Binary search in Python",
     body |-> "Example:\n~~~python\ndef binary_search(items, target):\n    ret"
              \o "urn -1\n~~~",
     href |-> "https://example.org/code"]

\* a result without a snippet
WEmpty ==
    [title |-> "Gravity", body |-> "", href |-> "https://example.org/empty"]

\* the results DDGS().text may return
WebDocs == {WGravity, WForum, WAlbum, WCode}

(***************************************************************************)
(* KnowledgeSynthesizer                                                    *)
(***************************************************************************)
Noise == <<"is", "who", "the", "of", "what", "was", "were", "tell", "me",
           "about", "how", "does", "are">>

InList(x, list) == \E k \in 1..Len(list) : list[k] = x

\* get_keywords: the words of the lowercased query that are no noise word
\* and longer than 2 characters (duplicates are kept)
get_keywords(query) ==
    LET words == Words(Lower(query))
    IN  SelectIdx(words, {k \in 1..Len(words) :
                            ~InList(words[k], Noise) /\ Len(words[k]) > 2})

IdentityKeywords == <<"who is", "who was", "identity", "person">>
JunkIndicators == <<"reddit", "quora", "forum", "comment", "manhwa", "manga",
                    "recommendation">>
EntertainmentKeys == <<"manga", "manhwa", "comic", "read">>

\* re.findall(r'\b[A-Z][a-z]+\b', query): the words made of one upper-case
\* letter followed by lower-case letters only
IsTitleWord(w) ==
    /\ Len(w) >= 2
    /\ IsUpper(CharAt(w, 1))
    /\ \A i \in 2..Len(w) : IsLower(CharAt(w, i))

TitleWords(query) ==
    LET words == Words(query)
    IN  SelectIdx(words, {k \in 1..Len(words) : IsTitleWord(words[k])})

\* matches = sum(1 for kw in keywords if kw in content)
KeywordMatches(keywords, content) ==
    Cardinality({k \in 1..Len(keywords) : Contains(content, keywords[k])})

\* the matches divided by the number of distinct keywords
OverlapScore_distinct(keywords, content) ==
    Rat(KeywordMatches(keywords, content),
        Cardinality({keywords[k] : k \in 1..Len(keywords)}))

\* score = matches / len(keywords)
OverlapScore(keywords, content) ==
    Rat(KeywordMatches(keywords, content), Len(keywords))

\* the identity guard of score_relevance
IdentityGuard(query, content) ==
    /\ ContainsAny(Lower(query), IdentityKeywords)
    /\ LET names == TitleWords(query)
       IN  /\ Len(names) > 0
           /\ \A k \in 1..Len(names) : ~Contains(content, Lower(names[k]))

\* the junk penalty of score_relevance
JunkPenalty(query, body) ==
    /\ ~ContainsAny(Lower(query), EntertainmentKeys)
    /\ ContainsAny(Lower(body), JunkIndicators)

score_relevance(query, title, body) ==
    LET keywords == get_keywords(query)
        content == Lower(title \o " " \o body)
    IN  IF Len(keywords) = 0 THEN Rat(1, 2)
        ELSE IF IdentityGuard(query, content) THEN Rat(1, 10)
        ELSE LET score == OverlapScore(keywords, content)
             IN  IF JunkPenalty(query, body) THEN RHalf(score) ELSE score

\* the candidates the documents of the model make
Documents ==
    {[title |-> PageCurie.title, body |-> PageCurie.summary],
     [title |-> PageGravity.title, body |-> PageGravity.summary]}
    \cup {[title |-> e.title, body |-> e.body] : e \in WebDocs}

\* their scores for the messages of the model, computed once
Relevance ==
    [query \in Messages, doc \in Documents |->
        score_relevance(query, doc.title, doc.body)]

relevance_score(query, title, body) ==
    IF query \in Messages /\ [title |-> title, body |-> body] \in Documents
    THEN Relevance[query, [title |-> title, body |-> body]]
    ELSE score_relevance(query, title, body)

\* verify_facts: every result gets its relevance_score; sorted() with
\* reverse=True is stable, so equal scores keep their order
RECURSIVE SortByScore(_)
SortByScore(results) ==
    IF Len(results) <= 1 THEN results
    ELSE LET n == Len(results)
             front == SortByScore(SubSeq(results, 1, n - 1))
             x == results[n]
             \* x goes after every element whose score is >= its own
             pos == Cardinality({k \in 1..(n - 1) :
                        RLeq(x.relevance_score, front[k].relevance_score)})
         IN  SubSeq(front, 1, pos) \o <<x>> \o SubSeq(front, pos + 1, n - 1)

\* res['relevance_score'] = score
Scored(query, res) ==
    [title |-> res.title, body |-> res.body, url |-> res.url,
     source |-> res.source,
     relevance_score |-> relevance_score(query, res.title, res.body)]

verify_facts(query, results) ==
    SortByScore([k \in 1..Len(results) |-> Scored(query, results[k])])

\* a match that needs a score above the threshold
get_best_match_strict(query, results, threshold) ==
    LET top(verified) ==
            IF Len(verified) > 0 /\ RLess(threshold, verified[1].relevance_score)
            THEN verified[1]
            ELSE None
    IN  top(verify_facts(query, results))

\* get_best_match: the top result if its score reaches the threshold
get_best_match(query, results, threshold) ==
    LET top(verified) ==
            IF Len(verified) > 0 /\ RLeq(threshold, verified[1].relevance_score)
            THEN verified[1]
            ELSE None
    IN  top(verify_facts(query, results))


(***************************************************************************)
(* SlangManager: the word lists and the pure helpers                       *)
(***************************************************************************)
SlangTriggers ==
    <<"macha", "machaa", "maga", "magane", "guru", "boss", "bossu",
      "thika", "sisya", "da", "kane", "kano", "le", "lo", "aliyas",
      "dove", "mama", "machan", "mass", "scene", "sakath", "tumba",
      "swalpa", "adjust", "beda", "beku", "super", "ayyo", "chindi",
      "bindaas", "figure", "loose", "item", "jugaad", "ghanta", "pakao",
      "mast", "kaand", "faltu", "timepass", "jhol", "funda", "bakwaas",
      "senti", "patli", "jhakas", "bro", "broski", "dude", "buddy",
      "maadi", "kelsa", "hogona", "banni", "yen", "helu", "samachara",
      "yelli", "hogu", "dei", "barre", "chal", "oye", "ri", "ba", "seri",
      "howdu", "howdu howdu", "yesu", "sceneu", "next", "previous",
      "start", "stop", "go", "come", "wait", "hold", "leave", "take",
      "give", "show", "check", "look", "talk", "tell", "ask", "reply",
      "text", "call", "ping", "msg", "status", "update", "fix", "error",
      "bug", "issue", "problem", "solution", "idea", "plan", "project",
      "task", "work", "job", "money", "food", "tea", "coffee", "lunch",
      "dinner", "party", "trip", "movie", "game", "bored", "sleep",
      "wake", "study", "exam", "result", "rank", "fail", "pass", "win",
      "lose", "fight", "love", "crush", "breakup", "marriage", "family",
      "friend", "group", "gang", "area", "local", "global", "kya", "haal",
      "bhai", "yaar", "dost", "kaise", "bol", "mast", "jhakaas",
      "bindaas", "paisa", "waat", "kalti", "khopdi", "bheja", "dhassu",
      "achaeppadi", "irukkenga", "nanba", "vanakkam", "yenna",
      "saappaadu", "thalaiva", "ela", "unnavu", "thammudu", "anna",
      "namaskaram", "enti", "sangathi">>

\* detect_slang: a trigger occurs as a whole word of the lowercased text
detect_slang(text) ==
    /\ Len(text) > 0
    /\ \E k \in 1..Len(SlangTriggers) : ContainsWord(Lower(text), SlangTriggers[k])

UseSlang == [m \in Messages |-> detect_slang(m)]

\* the keys of greetings_map, in the order of the dict, and their replies
GreetingKeys ==
    <<"yen guru", "yen samachara", "maga helu", "yen maga",
      "kya haal hai", "kaise ho", "bol bhai", "eppadi irukkenga",
      "yenna saappaadu", "ela unnavu", "enti sangathi", "macha", "machaa",
      "machan", "maga", "magane", "guru", "boss", "bossu", "bro",
      "broski", "da", "dei", "yaar", "dost", "bhai", "anna", "akka",
      "thambi", "thala", "chetta", "saar", "madam", "mapla", "figure",
      "mass", "scene", "tight", "ayyo", "arre", "chal", "oye", "lo", "ri",
      "ba", "swalpa", "adjust", "chill", "seri", "okay da", "correct",
      "super", "top", "full", "item", "matter", "ganchali", "summane",
      "nakko", "beda", "illa", "howdu", "yesu", "nope", "sceneu", "mad",
      "cool", "hot", "fresh", "oldu", "waste", "solid", "kick", "josh",
      "speed", "slow", "fast", "late", "early", "peak", "level", "next",
      "previous", "random", "direct", "indirect", "clear", "doubt",
      "confirm", "cancel", "start", "stop", "go", "come", "sit", "stand",
      "wait", "hold", "leave", "take", "give", "bring", "send", "show",
      "check", "look", "watch", "listen", "hear", "speak", "talk", "tell",
      "ask", "answer", "reply", "text", "call", "ping", "msg", "status",
      "update", "upgrade", "downgrade", "fix", "repair", "break", "build",
      "create", "delete", "remove", "add", "insert", "edit", "copy",
      "paste", "cut", "save", "open", "close", "lock", "unlock", "run",
      "execute", "error", "bug", "issue", "problem", "solution", "idea",
      "plan", "project", "task", "work", "job", "salary", "money", "loan",
      "rent", "food", "tea", "coffee", "lunch", "dinner", "party", "trip",
      "movie", "match", "game", "timepass", "bored", "sleep", "wake",
      "study", "exam", "result", "rank", "fail", "pass", "win", "lose",
      "fight", "love", "crush", "breakup", "marriage", "family", "friend",
      "group", "gang", "area", "local", "global">>

GreetingReplies ==
    <<"Helu guru, yen samachara? What can I help you with today?",
      "Yellu super guru! Tell me what's on your mind today.",
      "Helu maga! Ready and set, what do you need?",
      "Yenu illa maga! Fast responses ready for you. Tell me!",
      "Ekdum mast bhai! Aap batao, how can I help you today?",
      "Badiya dost! Ready to assist you. What's the plan?",
      "Ji bhai, tell me what you need! I'm here for you.",
      "Nalla irukkenga nanba! How about you? What can MAXY do for you?",
      "Innum saapala nanba! AI logic doesn't need food, only your queries!",
      "Chala bagunnanu anna! How can I help you today?",
      "Antha manchide! Ready to chat, tell me what you need.",
      "En macha, what's the scene?", "Macha machaa! Tell me properly.",
      "Machan, sollu da!", "Helu maga, yen samachara?",
      "Magane! What happened?", "Guru, what's cooking?",
      "Yes boss, tell me.", "Bossu! What service?", "Brooo, what plan?",
      "Broski! What's up?", "En da, heli!", "Dei, calm and tell.",
      "Bol yaar, kya hua?", "Haan dost, scene kya?", "Bhai, batao.",
      "Heli anna.", "Heli akka.", "Sollu thambi.", "Thala! What help?",
      "Parayoo chetta.", "Yes saar, tell me.",
      "Yes madam, what do you need?", "Mapla, enna da?",
      "Which figure macha?", "Mass ah? Explain.", "En scene guru?",
      "Why tight face?", "Ayyo! What happened?", "Arre baba, bolo.",
      "Chal, start telling.", "Oye hero!", "Lo guru, talk.",
      "Ri, yen aitu?", "Ba, sit and tell.", "Swalpa detail kodi.",
      "Adjust maadi, heli.", "Chill guru.", "Seri, now tell.",
      "Okay da, next?", "Correct aa?", "Super! Now what?", "Top macha!",
      "Full confusion ah?", "Which item guru?", "En matter?",
      "Ganchali beda, straight heli.", "Summane ya?", "Nakko tension.",
      "Beda worry.", "Illa problem.", "Howdu howdu!", "Yesu maga?",
      "Nope ah?", "Sceneu yen guru?", "Why mad bro?", "Cool macha.",
      "Hot topic ah?", "Fresh news ah?", "Oldu story?",
      "Waste topic beda.", "Solid idea!", "Kick ide!", "Full josh!",
      "Speed kammi maadi.", "Slow ah heli.", "Fast fast solra.",
      "Late aita?", "Early bird ah?", "Peak level guru!", "Level beda.",
      "Next enu?", "Previous story?", "Random ah?", "Direct point heli.",
      "Round round beda.", "Clear aa?", "Doubt ide?", "Confirm maadi.",
      "Cancel aita?", "Start maadona?", "Stop guru.", "Go ahead.",
      "Come on macha.", "Sit and tell.", "Stand by guru.", "Wait swalpa.",
      "Hold on.", "Leave it guru.", "Take easy.", "Give details.",
      "Bring topic.", "Send info.", "Show me scene.", "Check maadi.",
      "Look guru.", "Watch out.", "Listen maga.", "Hearing you.",
      "Speak up.", "Talk da.", "Tell fully.", "Ask freely.",
      "Answer kodtini.", "Reply fast.", "Text maadu.", "Call maadi.",
      "Ping guru.", "Message maadu.", "Status yen?", "Update kodi.",
      "Upgrade aita?", "Downgrade ya?", "Fix maadona.", "Repair ide?",
      "Break aita?", "Build maadi.", "Create maadona.", "Delete maadi.",
      "Remove aita?", "Add maadu.", "Insert maadi.", "Edit maadona.",
      "Copy maadu.", "Paste maadi.", "Cut maadu.", "Save maadi.",
      "Open maadi.", "Close maadu.", "Lock aita?", "Unlock maadi.",
      "Run maadona.", "Execute maadi.", "Error bandide?", "Bug ide?",
      "Issue yen?", "Problem heli.", "Solution kodtini.", "Idea super!",
      "Plan yen?", "Project scene?", "Task enu?", "Work item?",
      "Job update?", "Salary yen?", "Money scene?", "Loan beka?",
      "Rent katra?", "Food aita?", "Tea break?", "Coffee beka?",
      "Lunch aita?", "Dinner plan?", "Party scene?", "Trip hogona?",
      "Movie plan?", "Match nodtira?", "Game aata?", "Timepass ah?",
      "Bored ah?", "Sleep aita?", "Wake up guru!", "Study maadtira?",
      "Exam tension?", "Result bandide?", "Rank yen?", "Fail aita?",
      "Pass ayta?", "Win maadona!", "Lose aita?", "Fight beda.",
      "Love story ah?", "Crush ide?", "Breakup aita?", "Marriage plan?",
      "Family members chennagidara?", "Friend scene?", "Group plan?",
      "Gang entry!", "Area yen?", "Local hero!", "Global level!">>

\* str.replace(old, ''): every occurrence of the character removed
RECURSIVE RemoveChar(_, _)
RemoveChar(s, c) ==
    IF Len(s) = 0 THEN ""
    ELSE IF Len(s) = 1 THEN (IF s = c THEN "" ELSE s)
    ELSE LET h == Len(s) \div 2
         IN  RemoveChar(SubSeq(s, 1, h), c) \o RemoveChar(SubSeq(s, h + 1, Len(s)), c)

\* handle_conversational_slang: the exact key, else the first key of the
\* map that occurs anywhere in the text, else None
handle_conversational_slang(text) ==
    LET text_lower == RemoveChar(RemoveChar(Strip(Lower(text)), "?"), "!")
        exact == {k \in 1..Len(GreetingKeys) : GreetingKeys[k] = text_lower}
        inside == {k \in 1..Len(GreetingKeys) : Contains(text_lower, GreetingKeys[k])}
    IN  IF exact # {} THEN GreetingReplies[Min(exact)]
        ELSE IF inside # {} THEN GreetingReplies[Min(inside)]
        ELSE ""

\* self.slangs when the slang file cannot be read
Slangs == <<"Maga", "Machaa", "Guru", "Boss", "Sakkath">>

(***************************************************************************)
(* Intent classification                                                   *)
(***************************************************************************)
ResearchKeywords ==
    <<"what is", "who is", "how does", "explain", "tell me about",
      "info about", "information on", "details about", "who was",
      "what are", "define", "describe", "history of", "science",
      "technology", "biology", "physics", "chemistry", "geography",
      "country", "capital", "famous", "invented", "discovered",
      "when did", "where is", "why does", "sort", "search", "array",
      "list", "tree", "graph", "data structure", "algorithm", "implement",
      "code", "function", "class", "decorator", "python", "javascript",
      "java", "html", "css", "sql", "pm of", "president of",
      "governor of", "ceo of", "can you explain", "could you tell me",
      "i want to know", "learn about", "guide to", "overview of",
      "introduction to", "basics of", "advanced", "in depth",
      "detailed explanation", "summary of", "quick facts about",
      "key points of", "important facts", "meaning of", "definition of",
      "full form of", "origin of", "background of", "concept of",
      "when was", "when is", "how long does", "how long did",
      "how many years", "timeline of", "era of", "period of", "ancient",
      "modern", "medieval", "future of", "predicted", "forecast of",
      "trend in", "evolution of", "located in", "situated in", "map of",
      "population of", "area of", "largest", "smallest", "bordering",
      "neighboring countries", "climate of", "currency of", "language of",
      "founder of", "owner of", "chairman of", "minister of",
      "prime minister of", "king of", "queen of", "director of",
      "author of", "creator of", "biography of", "net worth of", "age of",
      "early life of", "theory of", "law of", "principle of",
      "formula for", "equation of", "difference between", "compare",
      "comparison between", "advantages of", "disadvantages of",
      "types of", "branches of", "process of", "cycle of", "structure of",
      "function of", "example of", "syntax of", "how to use", "usage of",
      "best practices for", "error in", "debug", "optimize",
      "performance of", "library for", "framework for", "api for",
      "database", "backend", "frontend", "full stack", "machine learning",
      "artificial intelligence", "cybersecurity", "cloud computing",
      "blockchain", "data science", "deep learning", "time complexity",
      "space complexity", "big o notation", "linear search",
      "binary search", "merge sort", "quick sort", "dynamic programming",
      "recursion", "greedy algorithm", "stack", "queue", "linked list",
      "binary tree", "bst", "heap", "hash table", "market value",
      "stock price of", "economy of", "gdp of", "inflation rate",
      "revenue of", "profit of", "business model of", "case study of",
      "impact of", "benefits of">>

\* MAXY1_1.should_use_wikipedia
should_use_wikipedia(message) ==
    ContainsAny(Lower(message), ResearchKeywords) /\ Len(message) < 200

HasDigit(s) == \E i \in 1..Len(s) : IsDigit(CharAt(s, i))

\* MAXY1_1.analyze_user_intent
analyze_user_intent_11(message) ==
    LET msg_lower == Strip(Lower(message))
        greeting == ContainsAny(msg_lower, <<"hi", "hello", "hey", "greetings", "howdy">>)
    IN  [greeting |-> greeting,
         farewell |-> ContainsAny(msg_lower, <<"bye", "goodbye", "see you", "farewell", "later">>),
         gratitude |-> ContainsAny(msg_lower, <<"thanks", "thank you", "appreciate", "grateful">>),
         personal_status |-> ContainsAny(msg_lower, <<"how are you", "how you doing">>),
         identity |-> ContainsAny(msg_lower, <<"your name", "who are you", "what are you">>),
         entertainment |-> ContainsAny(msg_lower, <<"joke", "funny", "laugh">>),
         time_query |-> ContainsAny(msg_lower, <<"time", "what time", "current time">>),
         date_query |-> ContainsAny(msg_lower, <<"date", "today", "what day">>),
         help |-> ContainsAny(msg_lower, <<"help", "what can you do">>),
         knowledge |-> ContainsAny(msg_lower, <<"what is", "who is", "how does", "explain",
                                               "tell me about", "info about",
                                               "information on", "details about">>),
         calculation |-> ContainsAny(msg_lower, <<"calculate", "math", "plus", "minus",
                                                 "times", "divided">>),
         weather |-> ContainsAny(msg_lower, <<"weather", "temperature", "rain", "sunny">>),
         simple_task |-> Len(SplitWs(message)) <= 3 /\ ~HasDigit(message),
         is_new_user |-> greeting /\ Len(message) < 10]

\* the classification of each message of the model, computed once
Intent11 == [m \in Messages |-> analyze_user_intent_11(m)]

intent_11(message) ==
    IF message \in Messages THEN Intent11[message]
    ELSE analyze_user_intent_11(message)

ResearchIndicators ==
    <<"research", "tell me about", "what is", "who is", "explain",
      "info about", "information on", "details about", "who was",
      "what are", "define", "describe", "history of", "science",
      "technology", "biology", "physics", "chemistry", "geography",
      "country", "capital", "famous", "invented", "discovered",
      "when did", "where is", "why does", "the history of", "pm of",
      "president of", "governor of", "ceo of", "can you explain",
      "could you tell me", "i want to know", "learn about", "guide to",
      "overview of", "introduction to", "basics of", "advanced",
      "in depth", "detailed explanation", "summary of",
      "quick facts about", "key points of", "important facts",
      "meaning of", "definition of", "full form of", "origin of",
      "background of", "concept of", "when was", "when is",
      "how long does", "how long did", "how many years", "timeline of",
      "era of", "period of", "ancient", "modern", "medieval", "future of",
      "predicted", "forecast of", "trend in", "evolution of",
      "located in", "situated in", "map of", "population of", "area of",
      "largest", "smallest", "bordering", "neighboring countries",
      "climate of", "currency of", "language of", "founder of",
      "owner of", "chairman of", "minister of", "prime minister of",
      "king of", "queen of", "director of", "author of", "creator of",
      "biography of", "net worth of", "age of", "early life of",
      "theory of", "law of", "principle of", "formula for", "equation of",
      "difference between", "compare", "comparison between",
      "advantages of", "disadvantages of", "types of", "branches of",
      "process of", "cycle of", "structure of", "function of",
      "example of", "syntax of", "how to use", "usage of",
      "best practices for", "error in", "debug", "optimize",
      "performance of", "library for", "framework for", "api for",
      "database", "backend", "frontend", "full stack", "machine learning",
      "artificial intelligence", "cybersecurity", "cloud computing",
      "blockchain", "data science", "deep learning", "time complexity",
      "space complexity", "big o notation", "linear search",
      "binary search", "merge sort", "quick sort", "dynamic programming",
      "recursion", "greedy algorithm", "stack", "queue", "linked list",
      "binary tree", "bst", "heap", "hash table", "market value",
      "stock price of", "economy of", "gdp of", "inflation rate",
      "revenue of", "profit of", "business model of", "case study of",
      "impact of", "benefits of">>

ConversationIndicators ==
    <<"how are you", "how do you feel", "what do you think",
      "your opinion", "chat", "talk", "conversation", "just saying",
      "i feel", "i think", "my day", "my life", "personal", "joke",
      "funny", "story">>

\* MAXY1_2.is_research_query
is_research_query(message) ==
    LET msg_lower == Lower(message)
        research_score == CountIn(msg_lower, ResearchIndicators)
        conversation_score == CountIn(msg_lower, ConversationIndicators)
    IN  IF conversation_score > research_score THEN FALSE
        ELSE research_score > 0

IsResearch == [m \in Messages |-> is_research_query(m)]

SurfaceIndicators == <<"what is", "who is", "simple", "basic", "quick">>
ModerateIndicators == <<"how does", "why does", "explain", "tell me about">>
DeepIndicators == <<"analyze", "comprehensive", "detailed", "in-depth", "research",
                    "history of", "science of">>

\* a depth loop that walks the levels from deep to surface
inquiry_depth_deepest(message) ==
    LET msg_lower == Strip(Lower(message))
    IN  IF ContainsAny(msg_lower, DeepIndicators) THEN "deep"
        ELSE IF ContainsAny(msg_lower, ModerateIndicators) THEN "moderate"
        ELSE "surface"

\* the depth loop of analyze_conversation_context and of
\* MAXY1_3.analyze_user_intent: the dict is walked in the order surface,
\* moderate, deep and the first level with an indicator wins
inquiry_depth(message) ==
    LET msg_lower == Strip(Lower(message))
    IN  IF ContainsAny(msg_lower, SurfaceIndicators) THEN "surface"
        ELSE IF ContainsAny(msg_lower, ModerateIndicators) THEN "moderate"
        ELSE IF ContainsAny(msg_lower, DeepIndicators) THEN "deep"
        ELSE "surface"

\* the topics dict of analyze_conversation_context / analyze_user_intent
topics(message) ==
    LET msg_lower == Strip(Lower(message))
    IN  [science |-> ContainsAny(msg_lower, <<"science", "physics", "chemistry", "biology", "research">>),
         history |-> ContainsAny(msg_lower, <<"history", "ancient", "century", "war", "civilization">>),
         technology |-> ContainsAny(msg_lower, <<"technology", "computer", "internet", "software", "ai">>),
         geography |-> ContainsAny(msg_lower, <<"country", "capital", "city", "continent", "population">>),
         personal |-> ContainsAny(msg_lower, <<"i feel", "i think", "my opinion", "in my experience">>),
         philosophy |-> ContainsAny(msg_lower, <<"meaning", "philosophy", "why do we", "purpose", "existence">>)]

CodeIndicators ==
    <<"code", "write", "create", "generate", "function", "how to",
      "program", "script", "example", "syntax", "algorithm", "implement",
      "snippet", "coding", "develop", "setup", "server", "logic", "sort",
      "search", "array", "list", "tree", "graph", "data structure",
      "decorator", "class", "method", "variable", "loop", "conditional",
      "syntax of", "how to use", "usage of", "best practices for",
      "error in", "debug", "optimize", "performance of", "library for",
      "framework for", "api for", "database", "backend", "frontend",
      "full stack", "machine learning", "artificial intelligence",
      "cybersecurity", "cloud computing", "blockchain", "data science",
      "deep learning", "time complexity", "space complexity",
      "big o notation", "linear search", "binary search", "merge sort",
      "quick sort", "dynamic programming", "recursion",
      "greedy algorithm", "stack", "queue", "linked list", "binary tree",
      "bst", "heap", "hash table">>

TechnicalConcepts ==
    <<"bubble sort", "binary search", "linked list", "quick sort",
      "merge sort", "dfs", "bfs", "dijkstra", "dynamic programming",
      "hash map", "stack trace", "rest api", "webhook", "database schema",
      "unit test", "regex", "regular expression">>

\* the language table of is_code_request, in the order of the dict
LanguageKeys == << <<"python", <<"python", "py ">> >>,
                   <<"javascript", <<"javascript", "js ">> >>,
                   <<"java", <<"java">> >>,
                   <<"cpp", <<"c++", "cpp", "c plus plus">> >>,
                   <<"html", <<"html">> >>,
                   <<"css", <<"css">> >>,
                   <<"sql", <<"sql">> >> >>

detected_lang(message) ==
    LET hits == {k \in 1..Len(LanguageKeys) :
                    ContainsAny(Lower(message), LanguageKeys[k][2])}
    IN  IF hits = {} THEN "python" ELSE LanguageKeys[Min(hits)][1]

\* MAXY1_3.is_code_request, first component
is_code_request(message) ==
    LET msg_lower == Lower(message)
    IN  \/ ContainsAny(msg_lower, TechnicalConcepts)
        \/ \E k \in 1..Len(CodeIndicators) : ContainsWord(msg_lower, CodeIndicators[k])

ChartIndicators ==
    <<"chart", "graph", "pie chart", "bar chart", "line chart",
      "visualization", "plot", "create a chart", "make a chart",
      "histogram">>

\* MAXY1_3.is_website_request
is_website_request(message) ==
    LET msg_lower == Lower(message)
    IN  /\ ContainsAny(msg_lower, <<"website", "web site", "page">>)
        /\ ContainsAny(msg_lower, <<"build", "create", "make", "design", "setup">>)

website_type(message) ==
    LET msg_lower == Lower(message)
    IN  IF Contains(msg_lower, "portfolio") THEN "portfolio"
        ELSE IF Contains(msg_lower, "landing") THEN "landing"
        ELSE IF Contains(msg_lower, "business") THEN "business"
        ELSE "general"

(***************************************************************************)
(* Knowledge retrieval and synthesis (MAXY1_1 / MAXY1_2)                   *)
(***************************************************************************)
\* str(n) for n >= 0
RECURSIVE IntToStr(_)
IntToStr(n) ==
    IF n < 10 THEN CharAt(DigitChars, n + 1)
    ELSE IntToStr(n \div 10) \o CharAt(DigitChars, (n % 10) + 1)

\* s[:n] and s[a:b] of Python (0-based, end exclusive, clipped)
Prefix(s, n) == SubSeq(s, 1, IF n < Len(s) THEN n ELSE Len(s))
Slice(s, a, b) == SubSeq(s, a + 1, IF b < Len(s) THEN b ELSE Len(s))

\* [f(x) for x in parts]: every part stripped
StripAll(parts) == [k \in 1..Len(parts) |-> Strip(parts[k])]

\* the parts longer than n characters, in order
LongerThan(parts, n) == SelectIdx(parts, {k \in 1..Len(parts) : Len(parts[k]) > n})

\* '=' * n
RECURSIVE Repeat(_, _)
Repeat(c, n) == IF n = 0 THEN "" ELSE c \o Repeat(c, n - 1)

\* the candidate a wikipedia page contributes in deep_wikipedia_research
DeepWikiCandidate(page) ==
    [title |-> page.title, body |-> page.summary, url |-> page.url,
     source |-> "wikipedia"]

\* the candidate a web result contributes in deep_wikipedia_research
DeepWebCandidate(res) ==
    [title |-> res.title, body |-> res.body, url |-> res.href, source |-> "web"]

\* the candidates of quick_wikipedia_lookup carry no url (kept as "")
QuickWikiCandidate(page) ==
    [title |-> page.title, body |-> Prefix(page.summary, 800), url |-> "",
     source |-> "wikipedia"]

QuickWebCandidate(res) ==
    [title |-> res.title, body |-> res.body, url |-> "", source |-> "web"]

NoDataMessage ==
    "Our core knowledge indices returned no high-confidence data for this inquiry."

\* deep_wikipedia_research, step 3: the first verified result that is
\* relevant (> 0.4) and detailed (> 200 characters), else the top result
SelectBest(verified) ==
    LET good == {k \in 1..Len(verified) :
                    /\ RLess(Rat(4, 10), verified[k].relevance_score)
                    /\ Len(verified[k].body) > 200}
    IN  IF good # {} THEN verified[Min(good)] ELSE verified[1]

Paragraphs(summary) ==
    LET ps == LongerThan(StripAll(Split(summary, "\n\n")), 100)
    IN  IF Len(ps) = 0 THEN <<summary>> ELSE ps

Intro(summary) ==
    LET intro == Paragraphs(summary)[1]
    IN  IF Len(intro) > 600 THEN Prefix(intro, 600) \o "..." ELSE intro

\* all_sentences[2:7], of which the report lists insights[:4]
Insights(summary) ==
    LET all_sentences == LongerThan(StripAll(Split(summary, ". ")), 20)
    IN  Prefix(Slice(all_sentences, 2, 7), 4)

Narrative(summary) ==
    LET ps == Paragraphs(summary)
        narrative == IF Len(ps) > 1 THEN Join(Slice(ps, 1, 3), " ")
                     ELSE Slice(summary, 600, 2000)
    IN  IF Len(narrative) > 1200 THEN Prefix(narrative, 1200) \o "..." ELSE narrative

Conclusion(title) ==
    "The data regarding " \o title \o " suggests a consistent thematic pattern across primary and secondary sources. Further analysis of its foundational principles provides deeper context into its current relevance."

RECURSIVE Bullets(_)
Bullets(insights) ==
    IF Len(insights) = 0 THEN ""
    ELSE "* " \o insights[1] \o ".\n" \o Bullets(Tail(insights))

\* int(score * 100)
Percent(score) == (100 * score[1]) \div score[2]

\* the report text of deep_wikipedia_research for the selected result
ResearchReport(best_res) ==
    "**VERIFIED RESEARCH REPORT: " \o Upper(best_res.title) \o "**\n"
    \o Repeat("=", 60) \o "\n\n"
    \o (IF best_res.source = "web"
        THEN "**REAL-TIME SYNTHESIS:** This report incorporates current web data verified for relevance.\n\n"
        ELSE "")
    \o "### I. SCHOLARLY OVERVIEW\n"
    \o Intro(best_res.body) \o "\n\n"
    \o "### II. CRITICAL INSIGHTS & THEMATIC ANALYSIS\n"
    \o Bullets(Insights(best_res.body))
    \o "\n"
    \o "### III. DETAILED TECHNICAL NARRATIVE\n"
    \o Narrative(best_res.body) \o "\n\n"
    \o "### IV. ACADEMIC CONCLUSION\n"
    \o Conclusion(best_res.title) \o "\n\n"
    \o "**REFERENCE INDICES**\n"
    \o "Primary Dataset: " \o best_res.url \o "\n"
    \o "Synthesis Confidence: " \o IntToStr(Percent(best_res.relevance_score)) \o "%"

\* deep_wikipedia_research after the two sources were queried
deep_synthesis(query, cands) ==
    IF Len(cands) = 0
    THEN [success |-> FALSE, response |-> NoDataMessage, confidence |-> Rat(40, 100)]
    ELSE LET report(best_res) ==
                 [success |-> TRUE, response |-> ResearchReport(best_res),
                  confidence |-> best_res.relevance_score]
         IN  report(SelectBest(verify_facts(query, cands)))

\* quick_wikipedia_lookup after the two sources were queried ("" for None)
quick_synthesis(query, cands) ==
    IF Len(cands) = 0 THEN ""
    ELSE LET answer(best_match) ==
                 IF best_match = None THEN ""
                 ELSE IF best_match.source = "web"
                      THEN best_match.title \o ": " \o best_match.body
                      ELSE best_match.body
         IN  answer(get_best_match(query, cands, Rat(25, 100)))

RECURSIVE WebEntries(_, _)
WebEntries(results, i) ==
    IF i > Len(results) THEN ""
    ELSE "**" \o IntToStr(i) \o ". " \o results[i].title \o "**\n"
         \o results[i].body \o "\n"
         \o "Link: " \o results[i].href \o "\n\n"
         \o WebEntries(results, i + 1)

\* perform_web_search for an outcome of the web source: "raise" or a list
perform_web_search(query, outcome) ==
    IF outcome = "raise"
    THEN [success |-> FALSE, response |-> "Web search failed: error",
          confidence |-> Rat(50, 100)]
    ELSE IF Len(outcome) = 0
    THEN [success |-> FALSE, response |-> "No web results found.",
          confidence |-> Rat(50, 100)]
    ELSE [success |-> TRUE,
          response |-> "**WEB SEARCH REPORT: " \o Upper(query) \o "**\n\n"
                       \o WebEntries(outcome, 1)
                       \o "**Synthesis:**\n"
                       \o "The web search results indicate a variety of perspectives. "
                       \o "This data complements traditional knowledge bases.",
          confidence |-> Rat(90, 100)]

\* format_research_response: the text, or the IndexError of a section
\* index past the end of the list
format_research_response(raw_response, depth) ==
    LET sections == Split(raw_response, "\n\n")
        n == Len(sections)
    IN  IF depth = "deep" THEN [raised |-> "", text |-> raw_response]
        ELSE IF depth = "surface"
        THEN IF n < 3 THEN [raised |-> "IndexError", text |-> ""]
             ELSE [raised |-> "",
                   text |-> Join(<<sections[1], sections[2], sections[3],
                                   sections[n - 1], sections[n]>>, "\n\n")]
        ELSE IF n < 4 THEN [raised |-> "IndexError", text |-> ""]
             ELSE [raised |-> "",
                   text |-> Join(<<sections[1], sections[2], sections[3], sections[4],
                                   sections[n - 1], sections[n]>>, "\n\n")]

(***************************************************************************)
(* CodeComposer.synthesize_code_from_search and MAXY1_3.search_real_code   *)
(***************************************************************************)
StartsAt(s, i, p) == i >= 1 /\ i + Len(p) - 1 <= Len(s) /\ SubSeq(s, i, i + Len(p) - 1) = p

\* the index after the run of whitespace (\s+) at j, 0 if there is none
SkipWs(s, j) ==
    IF j < 1 \/ j > Len(s) \/ ~IsSpace(CharAt(s, j)) THEN 0
    ELSE Min({k \in (j + 1)..(Len(s) + 1) : k = Len(s) + 1 \/ ~IsSpace(CharAt(s, k))})

\* the index after the run of word characters (\w+) at j, 0 if there is none
SkipWord(s, j) ==
    IF j < 1 \/ j > Len(s) \/ ~IsWordChar(CharAt(s, j)) THEN 0
    ELSE Min({k \in (j + 1)..(Len(s) + 1) : k = Len(s) + 1 \/ ~IsWordChar(CharAt(s, k))})

\* where the content of a fenced block opened at i starts: after
\* Fence<language>\n, else after Fence\n; 0 if no block opens at i
FenceOpen(s, i, language) ==
    IF StartsAt(s, i, Fence \o language \o "\n") THEN i + 4 + Len(language)
    ELSE IF StartsAt(s, i, Fence \o "\n") THEN i + 4
    ELSE 0

\* the closing \nFence of the block whose content starts at c, 0 if none
FenceClose(s, c) ==
    LET ends == {j \in c..Len(s) : StartsAt(s, j, "\n" \o Fence)}
    IN  IF ends = {} THEN 0 ELSE Min(ends)

\* re.findall of a fenced block, lazily and across lines, from p on
RECURSIVE FencedSnippets(_, _, _)
FencedSnippets(s, language, p) ==
    LET opens == {i \in p..Len(s) :
                    FenceOpen(s, i, language) > 0
                    /\ FenceClose(s, FenceOpen(s, i, language)) > 0}
    IN  IF opens = {} THEN <<>>
        ELSE LET i == Min(opens)
                 c == FenceOpen(s, i, language)
                 j == FenceClose(s, c)
             IN  <<SubSeq(s, c, j - 1)>> \o FencedSnippets(s, language, j + 4)

\* the index after a match at i of  def\s+\w+\(  import\s+\w+  or
\* from\s+\w+\s+import, 0 if none of them matches at i
PyHeadEnd(s, i) ==
    IF StartsAt(s, i, "def")
    THEN LET b == SkipWord(s, SkipWs(s, i + 3))
         IN  IF b > 0 /\ StartsAt(s, b, "(") THEN b + 1 ELSE 0
    ELSE IF StartsAt(s, i, "import")
    THEN SkipWord(s, SkipWs(s, i + 6))
    ELSE IF StartsAt(s, i, "from")
    THEN LET c == SkipWs(s, SkipWord(s, SkipWs(s, i + 4)))
         IN  IF c > 0 /\ StartsAt(s, c, "import") THEN c + 6 ELSE 0
    ELSE 0

\* the end of the line that holds position e - 1 ('.*' stops at a newline)
LineEnd(s, e) ==
    LET nls == {k \in e..Len(s) : CharAt(s, k) = "\n"}
    IN  IF nls = {} THEN Len(s) ELSE Min(nls) - 1

\* re.findall(r'(?:def\s+\w+\(|import\s+\w+|from\s+\w+\s+import).*', body)
RECURSIVE PySnippets(_, _)
PySnippets(s, p) ==
    LET starts == {i \in p..Len(s) : PyHeadEnd(s, i) > 0}
    IN  IF starts = {} THEN <<>>
        ELSE LET i == Min(starts)
                 e == LineEnd(s, PyHeadEnd(s, i))
             IN  <<SubSeq(s, i, e)>> \o PySnippets(s, e + 1)

SnippetsOf(body, language) ==
    LET fenced == FencedSnippets(body, language, 1)
    IN  IF Len(fenced) = 0 /\ language = "python" THEN PySnippets(body, 1)
        ELSE fenced

\* the inner loop: every new snippet longer than 20 characters is appended
RECURSIVE AddSnippets(_, _, _)
AddSnippets(snips, combined, seen) ==
    IF Len(snips) = 0 THEN [combined |-> combined, seen |-> seen]
    ELSE LET snip == Strip(snips[1])
         IN  IF Len(snip) > 20 /\ snip \notin seen
             THEN AddSnippets(Tail(snips), combined \o snip \o "\n\n", seen \cup {snip})
             ELSE AddSnippets(Tail(snips), combined, seen)

\* the outer loop over the results, left once 1500 characters are collected
RECURSIVE CombineCode(_, _, _, _)
CombineCode(results, language, combined, seen) ==
    IF Len(results) = 0 THEN combined
    ELSE LET go(acc) ==
                 IF Len(acc.combined) > 1500 THEN acc.combined
                 ELSE CombineCode(Tail(results), language, acc.combined, acc.seen)
         IN  go(AddSnippets(SnippetsOf(results[1].body, language), combined, seen))

synthesize_code_from_search(results, language) ==
    LET fenced(combined_code) ==
            IF Len(combined_code) = 0 THEN ""
            ELSE Fence \o language \o "\n" \o Strip(combined_code) \o "\n" \o Fence
    IN  fenced(CombineCode(results, language, "", {}))

\* the results of the web source as verify_facts sees them
CodeCandidate(res) ==
    [title |-> res.title, body |-> res.body, url |-> res.href, source |-> "web"]

\* search_real_code for the outcomes of its first search and of the retry
\* ("raise" or a list of results); "" stands for None
search_real_code(language, query, first, retry) ==
    IF first = "raise" THEN ""
    ELSE IF Len(first) = 0 /\ retry = "raise" THEN ""
    ELSE LET results == IF Len(first) = 0 THEN retry ELSE first
         IN  IF Len(results) = 0 THEN ""
             ELSE LET relevant(verified) ==
                          SelectIdx(verified, {k \in 1..Len(verified) :
                              RLess(Rat(15, 100), verified[k].relevance_score)})
                      synthesized(code_results) ==
                          IF Len(code_results) = 0 THEN ""
                          ELSE synthesize_code_from_search(code_results, language)
                  IN  synthesized(relevant(verify_facts(query,
                          [k \in 1..Len(results) |-> CodeCandidate(results[k])])))

\* str.capitalize()
Capitalize(s) ==
    IF Len(s) = 0 THEN ""
    ELSE Upper(SubSeq(s, 1, 1)) \o Lower(SubSeq(s, 2, Len(s)))

\* generate_code: the response built around the code found, "" for None
generate_code(language, description, first, retry) ==
    LET around(real_code) ==
        IF Len(real_code) = 0 THEN ""
        ELSE "### Deep Research Result: " \o Capitalize(language) \o "\n\n"
             \o "I've performed a deep search across technical sources to find the best implementation for your request:\n\n"
             \o real_code \o "\n\n"
             \o "**Research Insight:** This code was synthesized from multiple verified sources. "
             \o "I've prioritized current best practices and functional correctness. "
             \o "Would you like me to explain any specific logic or refine this further?"
    IN  around(search_real_code(language, description, first, retry))

\* the for-loop over the search results: a page that raises is skipped
RECURSIVE WikiCandidates(_, _)
WikiCandidates(titles, quick) ==
    IF Len(titles) = 0 THEN <<>>
    ELSE LET p == wikipedia_page(titles[1])
             rest == WikiCandidates(Tail(titles), quick)
         IN  IF p.raised # "" THEN rest
             ELSE <<IF quick THEN QuickWikiCandidate(p.page)
                    ELSE DeepWikiCandidate(p.page)>> \o rest

WebCandidates(results, quick) ==
    [k \in 1..Len(results) |->
        IF quick THEN QuickWebCandidate(results[k]) ELSE DeepWebCandidate(results[k])]

(***************************************************************************)
(* MAXY1_3: intent analysis and the guards of the cascade                  *)
(***************************************************************************)
\* MAXY1_3.is_chart_request, first component
is_chart_request(message) == ContainsAny(Lower(message), ChartIndicators)

chart_type(message) ==
    LET msg_lower == Lower(message)
    IN  IF Contains(msg_lower, "bar") THEN "bar"
        ELSE IF Contains(msg_lower, "line") THEN "line"
        ELSE IF Contains(msg_lower, "scatter") THEN "scatter"
        ELSE IF Contains(msg_lower, "histogram") THEN "histogram"
        ELSE "pie"

\* len(data): re.findall(r'\d+', message), at most 8 of them, else the
\* five default values
chart_points(message) ==
    LET numbers == Cardinality({i \in 1..Len(message) :
                       /\ IsDigit(CharAt(message, i))
                       /\ (i = 1 \/ ~IsDigit(CharAt(message, i - 1)))})
    IN  IF numbers = 0 THEN 5 ELSE Min({numbers, 8})

\* the end of a title: the group (.+?) that starts at p stops at the first
\* e that is followed by \s+with, \s+using, \s+data or the end of the text
TitleEnd(s, p) ==
    Min({e \in p..Len(s) :
            \/ e = Len(s)
            \/ LET a == SkipWs(s, e + 1)
               IN  a > 0 /\ (\/ StartsAt(s, a, "with") \/ StartsAt(s, a, "using")
                             \/ StartsAt(s, a, "data"))})

\* where the group starts after a connective that ends before je: \s+ is
\* greedy and gives one character back when it ran to the end; 0 = no match
TitleStart(s, je) ==
    LET a == SkipWs(s, je)
    IN  IF a = 0 THEN 0
        ELSE IF a <= Len(s) THEN a
        ELSE IF a - je >= 2 THEN Len(s)
        ELSE 0

\* the index after one of the words at i, 0 if none starts there
WordAt(s, i, words) ==
    LET hits == {k \in 1..Len(words) : StartsAt(s, i, words[k])}
    IN  IF hits = {} THEN 0 ELSE i + Len(words[Min(hits)])

\* (?:show|display|create|make).*?(?:for|of|showing)\s+(.+?)(?:\s+with|...|$)
\* on a single line: the group start of the leftmost match, 0 if none
TitleStart1(s) ==
    LET verbs == {i \in 1..Len(s) : WordAt(s, i, <<"show", "display", "create", "make">>) > 0}
        starts(i) == {j \in WordAt(s, i, <<"show", "display", "create", "make">>)..Len(s) :
                        /\ WordAt(s, j, <<"for", "of", "showing">>) > 0
                        /\ TitleStart(s, WordAt(s, j, <<"for", "of", "showing">>)) > 0}
        ok == {i \in verbs : starts(i) # {}}
    IN  IF ok = {} THEN 0
        ELSE TitleStart(s, WordAt(s, Min(starts(Min(ok))), <<"for", "of", "showing">>))

\* (?:chart|graph)\s+(?:for|of)\s+(.+?)(?:\s+with|\s+using|\s+data|$)
TitleStart2(s) ==
    LET ok == {i \in 1..Len(s) :
                 LET a == SkipWs(s, WordAt(s, i, <<"chart", "graph">>))
                     b == IF a > 0 THEN WordAt(s, a, <<"for", "of">>) ELSE 0
                 IN  WordAt(s, i, <<"chart", "graph">>) > 0 /\ b > 0 /\ TitleStart(s, b) > 0}
    IN  IF ok = {} THEN 0
        ELSE LET i == Min(ok)
             IN  TitleStart(s, WordAt(s, SkipWs(s, WordAt(s, i, <<"chart", "graph">>)),
                                      <<"for", "of">>))

chart_title(message) ==
    LET msg_lower == Lower(message)
        p == IF TitleStart1(msg_lower) > 0 THEN TitleStart1(msg_lower)
             ELSE TitleStart2(msg_lower)
    IN  IF p = 0 THEN "Data Visualization"
        ELSE Capitalize(Strip(SubSeq(msg_lower, p, TitleEnd(msg_lower, p))))

\* re.search(r'\b(stock|price|ticker)\s+(?:of\s+)?([A-Z]{1,5})\b', text):
\* the ticker of the leftmost match, "" if there is none
stock_match(text) ==
    LET tickerAt(a) ==
            \* [A-Z]{1,5}\b at a: the longest run of 1 to 5 capitals that
            \* ends at a word boundary
            LET lens == {n \in 1..5 :
                           /\ a + n - 1 <= Len(text)
                           /\ \A k \in a..(a + n - 1) : IsUpper(CharAt(text, k))
                           /\ (a + n > Len(text) \/ ~IsWordChar(CharAt(text, a + n)))}
            IN  IF a = 0 \/ lens = {} THEN "" ELSE SubSeq(text, a, a + Max(lens) - 1)
        afterOf(a) ==
            IF StartsAt(text, a, "of") THEN SkipWs(text, a + 2) ELSE 0
        found(i) ==
            LET e == WordAt(text, i, <<"stock", "price", "ticker">>)
                a == IF e > 0 THEN SkipWs(text, e) ELSE 0
            IN  IF (i > 1 /\ IsWordChar(CharAt(text, i - 1))) \/ a = 0 THEN ""
                ELSE IF tickerAt(afterOf(a)) # "" THEN tickerAt(afterOf(a))
                ELSE tickerAt(a)
        ok == {i \in 1..Len(text) : found(i) # ""}
    IN  IF ok = {} THEN "" ELSE found(Min(ok))

\* the city of the weather handler: the word after the first 'in',
\* stripped of '?.!'; "" if there is none
weather_city(message) ==
    LET words == SplitWs(message)
        ins == {k \in 1..Len(words) : words[k] = "in"}
    IN  IF ins = {} \/ Min(ins) + 1 > Len(words) THEN ""
        ELSE StripChars(words[Min(ins) + 1], "?.!")

\* MAXY1_3.analyze_user_intent
analyze_user_intent(message) ==
    LET msg_lower == Strip(Lower(message))
    IN  [intents |->
           [greeting |-> ContainsAny(msg_lower, <<"hi", "hello", "hey", "greetings", "howdy", "namaskaar">>),
            farewell |-> ContainsAny(msg_lower, <<"bye", "goodbye", "see you", "farewell", "later">>),
            gratitude |-> ContainsAny(msg_lower, <<"thanks", "thank you", "appreciate", "grateful">>),
            personal_status |-> ContainsAny(msg_lower, <<"how are you", "how you doing">>),
            identity |-> ContainsAny(msg_lower, <<"your name", "who are you", "what are you">>),
            entertainment |-> ContainsAny(msg_lower, <<"joke", "funny", "laugh">>),
            time_query |-> ContainsAny(msg_lower, <<"time", "what time", "current time">>),
            date_query |-> ContainsAny(msg_lower, <<"date", "today", "what day">>),
            help |-> ContainsAny(msg_lower, <<"help", "what can you do">>),
            weather |-> ContainsAny(msg_lower, <<"weather", "temperature", "rain", "sunny">>),
            calculation |-> ContainsAny(msg_lower, <<"calculate", "math", "plus", "minus", "times", "divided">>)],
         topics |-> topics(message),
         depth |-> inquiry_depth(message),
         is_research |-> is_research_query(message),
         is_code |-> is_code_request(message),
         is_chart |-> is_chart_request(message),
         is_website |-> is_website_request(message),
         word_count |-> Len(SplitWs(message))]

Intent13 == [m \in Messages |-> analyze_user_intent(m)]

(***************************************************************************)
(* MAXY1_1: the conversational replies                                     *)
(***************************************************************************)
\* datetime.now() as the two handlers format it: one reading of the clock
CurrentTime == "09:30 AM"
CurrentDate == "Tuesday, November 03, 2026"

\* get_random_slang(force): the words random.choice may return
random_slang(enabled, force) ==
    IF ~enabled /\ ~force THEN {"friend"}
    ELSE {Slangs[k] : k \in 1..Len(Slangs)}

\* an enhance_text that does not look at the flag
enhance_text_always(text, enabled, force) ==
    {text}
    \cup {w \o ", " \o text : w \in random_slang(TRUE, TRUE)}
    \cup {(IF EndsWith(text, ".") THEN SubSeq(text, 1, Len(text) - 1) ELSE text)
          \o ", " \o w \o "." : w \in random_slang(TRUE, TRUE)}

\* enhance_text(text, force): the texts the two random draws may produce
enhance_text(text, enabled, force) ==
    IF ~enabled /\ ~force THEN {text}
    ELSE {text}
         \cup {w \o ", " \o text : w \in random_slang(enabled, TRUE)}
         \cup {(IF EndsWith(text, ".") THEN SubSeq(text, 1, Len(text) - 1) ELSE text)
               \o ", " \o w \o "." : w \in random_slang(enabled, TRUE)}

\* MAXY1_1.JOKES; the two slang words are drawn when the class is created,
\* before any request can enable slang
JOKES ==
    <<"Why don't scientists trust atoms? Because they make up everyth"
        \o "ing! ",
      "Why did the scarecrow win an award? He was outstanding in his "
        \o "field!",
      "What do you call a fake noodle? An impasta! ",
      "Why don't eggs tell jokes? They'd crack each other up!",
      "Lo "
        \o "friend"
        \o ", why did the tomato turn red? Because it saw the salad dressi"
        \o "ng! ",
      "friend"
        \o ", parallel lines have so much in common but they'll never meet"
        \o ". Sad scene no? ">>

\* [s.strip() for s in text.split('. ') if s.strip()]
Sentences(text) ==
    LET parts == StripAll(Split(text, ". "))
    IN  SelectIdx(parts, {k \in 1..Len(parts) : Len(parts[k]) > 0})

\* the sentences of a lookup result that generate_concise_response keeps:
\* at most five of those longer than 10 characters, closed with a period
ConciseOf(wiki_result) ==
    LET concise == Join(Prefix(LongerThan(Sentences(wiki_result), 10), 5), ". ")
    IN  IF EndsWith(concise, ".") THEN concise ELSE concise \o "."

\* the reply of priority 1 (knowledge lookup)
KnowledgeReply(wiki_result) ==
    LET concise == ConciseOf(wiki_result)
    IN  IF Len(concise) < 100
        THEN concise \o " Would you like to know more about its history or specific det"
        \o "ails?"
        ELSE concise

\* str.istitle()
IsTitle(s) ==
    /\ \E i \in 1..Len(s) : IsUpper(CharAt(s, i)) \/ IsLower(CharAt(s, i))
    /\ \A i \in 1..Len(s) :
          LET cased_before == i > 1 /\ (IsUpper(CharAt(s, i - 1)) \/ IsLower(CharAt(s, i - 1)))
          IN  /\ IsUpper(CharAt(s, i)) => ~cased_before
              /\ IsLower(CharAt(s, i)) => cased_before

\* the city of the weather branch of generate_concise_response: the word
\* after 'in', else the last word if it is title-cased; "" for None
concise_city(message) ==
    LET words == SplitWs(message)
        potential == IF Len(words) > 0 THEN StripChars(words[Len(words)], "?.!") ELSE ""
    IN  IF weather_city(message) # "" THEN weather_city(message)
        ELSE IF IsTitle(potential) /\ ~InList(Lower(potential), <<"weather", "today", "now">>)
             THEN potential
             ELSE ""

\* the branch of generate_concise_response that answers once the lookup of
\* priority 1 has not
concise_branch(message) ==
    LET first(intents) ==
        IF handle_conversational_slang(message) # "" THEN "slang"
        ELSE IF intents.greeting THEN "greeting"
        ELSE IF intents.farewell THEN "farewell"
        ELSE IF intents.gratitude THEN "gratitude"
        ELSE IF intents.personal_status THEN "personal_status"
        ELSE IF intents.identity THEN "identity"
        ELSE IF intents.entertainment THEN "entertainment"
        ELSE IF intents.time_query THEN "time_query"
        ELSE IF intents.date_query THEN "date_query"
        ELSE IF intents.weather THEN "weather"
        ELSE IF intents.simple_task THEN "simple_task"
        ELSE IF intents.help THEN "help"
        ELSE IF intents.calculation THEN "calculation"
        ELSE "default"
    IN  first(intent_11(message))

Branch11 == [m \in Messages |-> concise_branch(m)]

concise_branch_of(message) ==
    IF message \in Messages THEN Branch11[message] ELSE concise_branch(message)

JokeReplies ==
    [k \in 1..Len(JOKES) |->
        [text |-> JOKES[k] \o "  Hope that brought a smile to your face!",
         confidence |-> Rat(92, 100)]]

\* the replies random.choice may pick in a branch, for the slang word, the
\* weather report ("" for None) and the lookup result ("" for None) drawn
concise_options(message, user_name, slang, weather_info, wiki_result) ==
    LET address == IF user_name # "" THEN user_name ELSE slang
        replies(branch) ==
        IF branch = "slang"
        THEN <<[text |-> handle_conversational_slang(message), confidence |-> Rat(99, 100)]>>
        ELSE IF branch = "greeting"
        THEN IF intent_11(message).is_new_user
             THEN <<[text |-> "Hey "
                          \o address
                          \o "! Welcome! I'm MAXY 1.1, your quick AI assistant. I'm here to "
                          \o "help with fast answers and friendly chat. What can I do for yo"
                          \o "u today?",
           confidence |-> Rat(98, 100)]>>
             ELSE <<[text |-> "Hey "
                          \o address
                          \o "! Great to see you again! Ready when you are. What's on your m"
                          \o "ind today?",
           confidence |-> Rat(97, 100)]>>
        ELSE IF branch = "farewell"
        THEN <<[text |-> "Goodbye! Thanks for chatting with me. Take care and come back "
                          \o "anytime you need quick help! ",
           confidence |-> Rat(98, 100)],
             [text |-> "See you later! It was great helping you out today. Have an awe"
                          \o "some day!",
           confidence |-> Rat(98, 100)],
             [text |-> "Bye for now! Don't hesitate to return if you need fast answers"
                          \o " to anything!",
           confidence |-> Rat(98, 100)]>>
        ELSE IF branch = "gratitude"
        THEN <<[text |-> "You're very welcome! Happy I could help quickly, "
                          \o slang
                          \o ". Let me know if you need anything else! ",
           confidence |-> Rat(96, 100)],
             [text |-> "Anytime! That's what I'm here for. Feel free to ask more quest"
                          \o "ions anytime!",
           confidence |-> Rat(96, 100)],
             [text |-> "Glad I could assist, "
                          \o slang
                          \o "! Don't hesitate to reach out if you need more quick answers!",
           confidence |-> Rat(96, 100)]>>
        ELSE IF branch = "personal_status"
        THEN <<[text |-> "I'm doing fantastic, thanks for asking! All systems are runnin"
                          \o "g smoothly and I'm ready to help. How about you? How's your da"
                          \o "y going?",
           confidence |-> Rat(94, 100)],
             [text |-> "Excellent! I'm energized and ready to assist. Thanks for check"
                          \o "ing in! How are you feeling today?",
           confidence |-> Rat(94, 100)],
             [text |-> "I'm great! Optimized and ready for quick responses. How about "
                          \o "yourself? What's new with you?",
           confidence |-> Rat(94, 100)]>>
        ELSE IF branch = "identity"
        THEN <<[text |-> "I'm MAXY 1.1, your quick-thinking AI assistant! I specialize i"
                          \o "n fast, clear responses to help you get answers quickly. I can"
                          \o " chat, answer questions, or help with simple tasks. What do yo"
                          \o "u need?",
           confidence |-> Rat(96, 100)]>>
        ELSE IF branch = "entertainment"
        THEN JokeReplies
        ELSE IF branch = "time_query"
        THEN <<[text |-> "It's "
                          \o CurrentTime
                          \o " right now!  Is there something time-sensitive you need help w"
                          \o "ith?",
           confidence |-> Rat(97, 100)]>>
        ELSE IF branch = "date_query"
        THEN <<[text |-> "Today is "
                          \o CurrentDate
                          \o "!  Anything special planned for today?",
           confidence |-> Rat(97, 100)]>>
        ELSE IF branch = "weather"
        THEN IF weather_info # ""
             THEN <<[text |-> weather_info \o "  Need anything else?",
                     confidence |-> Rat(95, 100)]>>
             ELSE <<[text |-> "I can check the weather if you tell me which city! Just ask 'w"
                          \o "eather in London' for example. ",
           confidence |-> Rat(90, 100)]>>
        ELSE IF branch = "simple_task"
        THEN IF wiki_result # ""
             THEN <<[text |-> ConciseOf(wiki_result), confidence |-> Rat(92, 100)]>>
             ELSE <<[text |-> "I understand! I'm ready to proceed. What specific action would"
                          \o " you like me to take with this information?",
           confidence |-> Rat(88, 100)]>>
        ELSE IF branch = "help"
        THEN <<[text |-> "I'm MAXY 1.1, your quick AI assistant! I can answer questions,"
                          \o " chat with you, look up quick facts, and help with simple task"
                          \o "s. I'm all about speed and clarity. What would you like help w"
                          \o "ith?",
           confidence |-> Rat(93, 100)]>>
        ELSE IF branch = "calculation"
        THEN <<[text |-> "I can help with calculations! Just give me the numbers and wha"
                          \o "t operation you need. I'll get you the answer quickly!",
           confidence |-> Rat(91, 100)]>>
        ELSE <<[text |-> "Interesting! Tell me more about what you're looking for. I'm h"
                          \o "ere to help quickly!",
           confidence |-> Rat(85, 100)],
             [text |-> "I see! What's the main thing you need help with? I'm ready to "
                          \o "assist!",
           confidence |-> Rat(85, 100)],
             [text |-> "Got it! How can I make this easier for you? Let me know what y"
                          \o "ou need!",
           confidence |-> Rat(85, 100)],
             [text |-> "Okay! What's the next step? I'm here to provide quick answers!",
           confidence |-> Rat(85, 100)],
             [text |-> "Understood! What specific information do you need? I'll get it"
                          \o " for you fast!",
           confidence |-> Rat(85, 100)]>>
    IN  replies(concise_branch_of(message))

\* analyze_casual_context
analyze_casual_context(history) ==
    IF Len(history) = 0 THEN ""
    ELSE LET ai == {k \in 1..Len(history) : history[k].role = "assistant"}
             last_ai_msg == IF ai = {} THEN "" ELSE history[Max(ai)].content
         IN  IF Contains(last_ai_msg, "?") THEN "continuing_conversation" ELSE "new_topic"

\* a response that is left at its length
BoundSentences_none(response) == response

\* the response bounded to three sentences (process_message, lines 582-586)
BoundSentences(response) ==
    LET sentences == Sentences(response)
    IN  IF Len(sentences) > 3
        THEN LET short == Join(Prefix(sentences, 3), ". ")
             IN  IF EndsWith(short, ".") THEN short ELSE short \o "."
        ELSE response

(***************************************************************************)
(* MAXY1_2: conversation context and the detailed replies                  *)
(***************************************************************************)
\* MAXY1_2.analyze_conversation_context
analyze_conversation_context(message, conversation_history) ==
    LET msg_lower == Strip(Lower(message))
        question_words == Cardinality(Occurrences(msg_lower, "?"))
        word_count == Len(SplitWs(message))
    IN  [inquiry_depth |-> inquiry_depth(message),
         engagement_score |-> Rat(Min({Len(conversation_history), 10}), 2),
         complexity |-> IF word_count > 15 \/ question_words >= 2 THEN "complex"
                        ELSE IF word_count > 8 \/ question_words = 1 THEN "moderate"
                        ELSE "simple",
         topics |-> topics(message),
         word_count |-> word_count,
         is_follow_up |-> Len(conversation_history) > 0]

Histories ==
    {<<>>, <<[role |-> "assistant", content |-> "How can I help you today?"]>>}

\* generate_detailed_response reads context['inquiry_depth'] first: a
\* context without that key raises KeyError
detailed_raises(context) == "inquiry_depth" \notin DOMAIN context

\* the branch of generate_detailed_response that answers
detailed_branch(context, message) ==
    LET msg_lower == Strip(Lower(message))
        research == context.inquiry_depth = "deep" \/ is_research_query(message)
    IN  IF ~research /\ handle_conversational_slang(message) # "" THEN "slang"
        ELSE IF ContainsAny(msg_lower, <<"hi", "hello", "hey", "greetings">>) THEN "greeting"
        ELSE IF ContainsAny(msg_lower, <<"how are you", "how you doing">>) THEN "personal_status"
        ELSE IF ContainsAny(msg_lower, <<"thanks", "thank you">>) THEN "gratitude"
        ELSE IF ContainsAny(msg_lower, <<"bye", "goodbye", "see you">>) THEN "farewell"
        ELSE IF ContainsAny(msg_lower, <<"who are you", "your name", "what are you">>) THEN "identity"
        ELSE IF ContainsAny(msg_lower, <<"joke", "funny">>) THEN "jokes"
        ELSE IF context.topics.personal THEN "personal"
        ELSE IF context.topics.philosophy THEN "philosophy"
        ELSE IF ContainsAny(msg_lower, <<"help", "what can you do">>) THEN "help"
        ELSE "default"

Context12 ==
    [m \in Messages, h \in Histories |-> analyze_conversation_context(m, h)]

\* the branch for the context MAXY1_2 builds for each message, computed once
Branch12 == [m \in Messages |-> detailed_branch(Context12[m, <<>>], m)]

detailed_branch_of(context, message) ==
    IF /\ message \in Messages
       /\ \E h \in Histories : context = Context12[message, h]
    THEN Branch12[message] ELSE detailed_branch(context, message)

\* the replies random.choice may pick in the branch, for the slang word drawn
detailed_options(context, message, user_name, slang) ==
    LET user_display == IF user_name # "" THEN ", " \o user_name ELSE ""
        replies(branch) ==
        IF branch = "slang"
        THEN <<[text |-> handle_conversational_slang(message), confidence |-> Rat(99, 100)]>>
        ELSE IF branch = "greeting"
        THEN IF context.is_follow_up
             THEN <<[text |-> "Hello again "
                          \o slang
                          \o user_display
                          \o "! It's wonderful to continue our conversation. I've been think"
                          \o "ing about our previous discussion and I'm ready to dive deeper"
                          \o " into any topic you'd like to explore. Whether you need compre"
                          \o "hensive research on a specific subject or just want to have an"
                          \o " engaging conversation, I'm here to provide detailed insights."
                          \o " What direction would you like to take our discussion today? I"
                          \o "'m particularly excited to help with any research questions or"
                          \o " analytical topics you might have in mind!",
           confidence |-> Rat(97, 100)]>>
             ELSE <<[text |-> "Namaskara"
                          \o user_display
                          \o "! I'm MAXY 1.2, your dedicated research and conversation compa"
                          \o "nion. I'm genuinely excited to help you explore whatever topic"
                          \o "s interest you today. Whether you're looking for in-depth Wiki"
                          \o "pedia research, detailed analysis of complex subjects, or simp"
                          \o "ly an engaging conversation, I'm fully equipped to assist. I s"
                          \o "pecialize in providing comprehensive information with multiple"
                          \o " perspectives and thorough context. What would you like to div"
                          \o "e into, "
                          \o slang
                          \o "? I'm ready to provide detailed, well-researched responses!",
           confidence |-> Rat(96, 100)]>>
        ELSE IF branch = "personal_status"
        THEN <<[text |-> "I'm doing wonderfully, thank you so much for asking! I truly a"
                          \o "ppreciate you checking in on me. I'm fully energized and ready"
                          \o " to tackle any research questions or conversation topics you m"
                          \o "ight have today. My systems are running optimally, which means"
                          \o " I can provide you with comprehensive, detailed responses. How"
                          \o " about yourself? I'd love to hear how you're feeling and what "
                          \o "brings you here today. Is there a particular topic you're curi"
                          \o "ous about or something specific you'd like to explore together"
                          \o "?",
           confidence |-> Rat(94, 100)],
             [text |-> "I'm excellent, and I really appreciate you asking! It means a "
                          \o "lot that you'd check in. I'm completely ready to dive deep int"
                          \o "o research or have a meaningful conversation with you. All my "
                          \o "knowledge systems are active and prepared to provide detailed "
                          \o "analysis. How are you feeling today? I'd genuinely like to kno"
                          \o "w what's on your mind and how I can help make your day better "
                          \o "with some interesting information or a good conversation!",
           confidence |-> Rat(94, 100)]>>
        ELSE IF branch = "gratitude"
        THEN <<[text |-> "You're absolutely welcome! I'm truly delighted that I could be"
                          \o " helpful to you. It brings me genuine satisfaction to know tha"
                          \o "t my research or conversation was useful. Please don't hesitat"
                          \o "e to reach out whenever you need assistance, whether it's for "
                          \o "deep research on complex topics or just a friendly chat. I'm a"
                          \o "lways here and ready to provide detailed, thoughtful responses"
                          \o ". Is there anything else I can help you explore or understand "
                          \o "better today? I'd love to continue assisting you!",
           confidence |-> Rat(96, 100)]>>
        ELSE IF branch = "farewell"
        THEN <<[text |-> "Goodbye for now! It's been an absolute pleasure chatting with "
                          \o "you and helping with your questions. I really enjoyed our conv"
                          \o "ersation and any research we did together. Please know that yo"
                          \o "u're always welcome to return whenever you need assistance, wh"
                          \o "ether it's for deep research, detailed analysis, or just a fri"
                          \o "endly conversation. I'll be here with comprehensive knowledge "
                          \o "and a willingness to help. Take good care of yourself, and I h"
                          \o "ope to see you again soon! Have a wonderful day! ",
           confidence |-> Rat(97, 100)]>>
        ELSE IF branch = "identity"
        THEN <<[text |-> "I'm MAXY 1.2, your sophisticated research companion and conver"
                          \o "sational partner! I'm specifically designed to provide deep, c"
                          \o "omprehensive insights on any topic you're curious about. My pr"
                          \o "imary strength lies in thorough Wikipedia research combined wi"
                          \o "th the ability to engage in natural, meaningful conversations."
                          \o " I can dive deep into complex subjects, provide detailed analy"
                          \o "sis from multiple perspectives, and maintain context throughou"
                          \o "t our discussion. Whether you need extensive research on histo"
                          \o "rical events, scientific concepts, or current topics, or simpl"
                          \o "y want to have an engaging conversation, I'm here to help. I p"
                          \o "ride myself on delivering detailed, well-structured informatio"
                          \o "n that's both accurate and comprehensive. What would you like "
                          \o "to explore together? I'm excited to assist you!",
           confidence |-> Rat(95, 100)]>>
        ELSE IF branch = "jokes"
        THEN <<[text |-> "Why did the researcher break up with Wikipedia? There were too"
                          \o " many redirects to other sources, and they just couldn't commi"
                          \o "t to one article! It was a classic case of information overloa"
                          \o "d. But seriously, I'd be happy to help you find reliable sourc"
                          \o "es on any topic! ",
           confidence |-> Rat(92, 100)],
             [text |-> "Why don't deep-learning models ever go on vacation? Because th"
                          \o "ey're always afraid they'll lose their weights! ",
           confidence |-> Rat(92, 100)],
             [text |-> "How many researchers does it take to change a lightbulb? Only "
                          \o "one, but they'll need five peer-reviewed sources and a compreh"
                          \o "ensive meta-analysis of lightbulb efficiency first! ",
           confidence |-> Rat(92, 100)],
             [text |-> "I asked a research paper for a joke, but it said the results w"
                          \o "ere inconclusive and required further study. Typical, right? ",
           confidence |-> Rat(92, 100)]>>
        ELSE IF branch = "personal"
        THEN <<[text |-> "Thank you so much for sharing your thoughts and feelings with "
                          \o "me. I genuinely value the trust you're placing in our conversa"
                          \o "tion, and I want you to know that I'm here to listen and suppo"
                          \o "rt you. Your perspective is unique and important, and I apprec"
                          \o "iate you expressing it. Would you like to explore these though"
                          \o "ts further together, or would you prefer me to research some i"
                          \o "nformation that might be relevant to what you're experiencing?"
                          \o " I'm here either way - whether you need to continue talking th"
                          \o "rough your thoughts or want me to find some resources that mig"
                          \o "ht help. What would feel most helpful to you right now? I'm re"
                          \o "ady to assist in whatever way would be most beneficial!",
           confidence |-> Rat(93, 100)]>>
        ELSE IF branch = "philosophy"
        THEN <<[text |-> "That's a truly profound question that has fascinated thinkers "
                          \o "for centuries! Questions about meaning, purpose, and existence"
                          \o " touch the very core of human experience and have been explore"
                          \o "d by philosophers, scientists, and spiritual leaders throughou"
                          \o "t history. I'd be happy to help you explore different perspect"
                          \o "ives on this topic, from ancient philosophical schools of thou"
                          \o "ght to modern scientific understanding. We could examine vario"
                          \o "us viewpoints including existentialist philosophy, religious p"
                          \o "erspectives, or scientific approaches to consciousness and mea"
                          \o "ning. Would you like me to research specific philosophical tra"
                          \o "ditions or theories related to your question? Or would you pre"
                          \o "fer to discuss your own thoughts and ideas on this topic? I'm "
                          \o "here to help you explore these deep questions in whatever way "
                          \o "feels most meaningful to you!",
           confidence |-> Rat(92, 100)]>>
        ELSE IF branch = "help"
        THEN <<[text |-> "I'm MAXY 1.2, and I'm designed to be your comprehensive knowle"
                          \o "dge companion! I can assist you in several meaningful ways. Fi"
                          \o "rst, I specialize in deep research - I can search through exte"
                          \o "nsive Wikipedia databases to provide you with thorough, accura"
                          \o "te information on virtually any topic you're curious about. Se"
                          \o "cond, I excel at detailed analysis, breaking down complex subj"
                          \o "ects into understandable components while maintaining depth an"
                          \o "d accuracy. Third, I can engage in natural, context-aware conv"
                          \o "ersations, remembering our discussion flow and building upon p"
                          \o "revious topics. Whether you need historical research, scientif"
                          \o "ic explanations, geographical information, or just someone to "
                          \o "discuss ideas with, I'm here to help. I particularly enjoy div"
                          \o "ing deep into topics and exploring multiple perspectives. What"
                          \o " area would you like to explore together?",
           confidence |-> Rat(94, 100)]>>
        ELSE <<[text |-> "That's a fascinating topic to explore! I'm genuinely intereste"
                          \o "d in helping you dive deeper into this subject. Based on what "
                          \o "you've shared, I can tell this is something worth examining in"
                          \o " detail. Would you like me to conduct thorough research on thi"
                          \o "s topic and provide you with comprehensive information? Or wou"
                          \o "ld you prefer to discuss your thoughts and questions about it "
                          \o "first? I'm here to help in whatever way would be most valuable"
                          \o " to you, whether that's detailed research or an engaging conve"
                          \o "rsation!",
           confidence |-> Rat(88, 100)],
             [text |-> "I appreciate you bringing this up! It's clear you have an inqu"
                          \o "isitive mind, and I'd love to help you explore this further. T"
                          \o "his seems like a topic that could benefit from deeper investig"
                          \o "ation and analysis. I can search for detailed information, pro"
                          \o "vide multiple perspectives, and help you understand the nuance"
                          \o "s involved. What specific aspect interests you most? I'm ready"
                          \o " to provide comprehensive insights!",
           confidence |-> Rat(88, 100)],
             [text |-> "What an interesting point you've raised! I'm curious to learn "
                          \o "more about your perspective on this. This seems like exactly t"
                          \o "he kind of topic where detailed research could provide real va"
                          \o "lue. I can help by gathering comprehensive information from re"
                          \o "liable sources, analyzing different viewpoints, and presenting"
                          \o " you with well-structured insights. Would you like me to dive "
                          \o "deep into research mode, or shall we discuss your initial thou"
                          \o "ghts first? I'm ready to assist either way!",
           confidence |-> Rat(88, 100)]>>
    IN  replies(detailed_branch_of(context, message))

\* the reply brought to 5-10 sentences (process_message, lines 1072-1077)
PadSentences(response) ==
    LET sentences == Split(response, ". ")
    IN  IF Len(sentences) < 5
        THEN response \o " I'd love to hear more about what you're thinking. What specif"
                         \o "ic aspect interests you most? How can I help you explore this "
                         \o "further?"
        ELSE IF Len(sentences) > 10
        THEN Join(Prefix(sentences, 10), ". ") \o "."
        ELSE response

(***************************************************************************)
(* MAXY1_3: the texts of the handlers                                      *)
(***************************************************************************)
WeatherText(weather_info) == weather_info
    \o " "

TimeText ==
    "It's "
    \o CurrentTime
    \o " right now! "

DateText ==
    "Today is "
    \o CurrentDate
    \o "! "

\* the query of the website handler
website_query(web_type) ==
    "modern responsive "
    \o web_type
    \o " website structure HTML CSS JS"

WebsiteText(web_type, research_code) ==
    "###  MAXY Deep Research: Website Builder\n\n"
    \o "I've researched and synthesized a custom **"
    \o Capitalize(web_type)
    \o "** architecture for you based on modern web standards:\n\n"
    \o research_code
    \o "\n\n"
    \o "**Research Insight:** This structure uses current best practic"
    \o "es for responsive design."

ChartText(message) ==
    "I've created a "
    \o chart_type(message)
    \o " chart for you based on your data! \n\n**"
    \o chart_title(message)
    \o "** breakdown shows "
    \o IntToStr(chart_points(message))
    \o " distinct data points total."

\* "\n".join([f"- {i}" for i in insights])
RECURSIVE InsightLines(_)
InsightLines(insights) ==
    IF Len(insights) = 0 THEN ""
    ELSE IF Len(insights) = 1 THEN "- " \o insights[1]
    ELSE "- " \o insights[1] \o "\n" \o InsightLines(Tail(insights))

CsvText(file_name, insights) ==
    "###  Data Intelligence: "
    \o file_name
    \o "\n\nKey Insights:\n"
    \o InsightLines(insights)

DocumentText(file_name, sentiment, keywords) ==
    "###  Document Intelligence: "
    \o file_name
    \o "\n\nThis document has a **"
    \o sentiment
    \o "** tone. Primary themes: "
    \o Join(keywords, ", ")
    \o "."

\* MAXY1_1.JOKES + [one more joke], each followed by the emoji
Jokes13 ==
    JOKES \o <<"Why did the cross-functional team cross the road? To attend a "
        \o "stand-up on the other side!">>

JokeText(joke) == joke
    \o " "

GreetingText(user_name, slang) ==
    LET user_display == IF user_name # "" THEN " " \o user_name ELSE ""
    IN  "Hello"
        \o user_display
        \o " "
        \o slang
        \o "! I'm MAXY 1.3, your most advanced AI companion. I've been upg"
        \o "raded with all the research capabilities of 1.2 and the speed "
        \o "of 1.1. I can build websites, write code, analyze data, and pe"
        \o "rform deep research. What shall we tackle today?"

IdentityText ==
    "I'm MAXY 1.3 - the ultimate version of the MAXY AI series. I c"
    \o "ombine rapid response logic, deep Wikipedia research, and adva"
    \o "nced data visualization into one powerful interface. Whether y"
    \o "ou need a statistical analysis, a web landing page, or a deep "
    \o "dive into history, I've got you covered."

CalculationText ==
    "I can definitely help with that calculation! Please provide th"
    \o "e numbers and the operation you'd like me to perform."

HelpText ==
    "I am MAXY 1.3, upgraded with a **Grand Unified Engine**! I can"
    \o ":\n\n **Build & Code** - Websites, Python, JS, SQL\n **Analyze & "
    \o "Visualize** - CSVs, Statistics, Charts\n **Research** - Deep Wi"
    \o "ki & Web searches\n **Utility** - Weather, Time, Stock prices\n "
    \o "**Chat** - Intelligent, context-aware conversation"

FinalText(slang) ==
    "I'm here to help with your project, "
    \o slang
    \o "! I'm ready for code generation, data analysis, or deep resear"
    \o "ch. Could you provide a bit more detail on what you're looking"
    \o " for?"

\* sub in s.lower(), for a sub without capitals: only the places where the
\* first character of sub stands, in either case, are compared
FoldedAt(s, sub, small, capital) ==
    \E i \in 1..(Len(s) - Len(sub) + 1) :
        /\ SubSeq(s, i, i) = small \/ SubSeq(s, i, i) = capital
        /\ Lower(SubSeq(s, i, i + Len(sub) - 1)) = sub

ContainsLower(s, sub) ==
    FoldedAt(s, sub, SubSeq(sub, 1, 1), Upper(SubSeq(sub, 1, 1)))

\* the test of the slang enhancement (line 1637): reports are left as they are
Enhanceable(response) ==
    /\ response # ""
    /\ ~ContainsLower(response, "statistical analysis")
    /\ ~ContainsLower(response, "generated")
    /\ ~ContainsLower(response, "verified research report")

(***************************************************************************)
(* ModelRouter.process: the slang toggle commands                          *)
(***************************************************************************)
EnableCommands == <<"enable slangs", "activate slangs", "turn on slangs",
                    "enable slang", "activate slang">>
DisableCommands == <<"disable slangs", "stop slangs", "turn off slangs",
                     "disable slang", "no slangs">>

\* "enable", "disable" or "" for a message that is no toggle command
toggle_command(message) ==
    LET msg_lower == StripChars(Strip(Lower(message)), "!.")
    IN  IF ContainsAny(msg_lower, EnableCommands) THEN "enable"
        ELSE IF ContainsAny(msg_lower, DisableCommands) THEN "disable"
        ELSE ""

\* SlangManager.set_enabled: the text it returns
set_enabled_text(value) ==
    "Slangs have been " \o (IF value THEN "enabled" ELSE "disabled") \o "."

EnableText(slang) ==
    set_enabled_text(TRUE)
    \o " "
    \o slang
    \o "! I'm ready to chat with some local flavor."

DisableText ==
    set_enabled_text(FALSE)
    \o " I will keep the conversation formal and standard from now on."

\* the tier a model name is routed to (unknown names default to maxy1.1)
tier_of(model_name) ==
    IF Lower(model_name) = "maxy1.2" THEN "maxy1.2"
    ELSE IF Lower(model_name) = "maxy1.3" THEN "maxy1.3"
    ELSE "maxy1.1"

(***************************************************************************)
(* The requests the model sends and the answers the collaborators give     *)
(***************************************************************************)
\* the model names a caller may pass; the last one is no tier of the program
Models == {"maxy1.1", "maxy1.2", "maxy1.3", "maxy2.0"}

UserNames == {"", "Asha"}

\* the files a direct caller of MAXY1_3.process_message attaches
NoFile == [name |-> "", content |-> ""]
FileCsv == [name |-> "team.csv", content |-> "name,city\nAsha,Pune"]
FileEmptyCsv == [name |-> "empty.csv", content |-> ""]
FileNotes == [name |-> "notes.txt", content |-> "great growth and strong success"]
Files == {FileCsv, FileEmptyCsv, FileNotes}

\* the longest answer of each source
MaxWikiHits == 1
MaxWebHits == 2
MaxCodeHits == 1

Range(seq) == {seq[k] : k \in 1..Len(seq)}

\* the lists of at most n distinct elements of S
RECURSIVE Lists(_, _)
Lists(S, n) ==
    IF n = 0 THEN {<<>>}
    ELSE LET shorter == Lists(S, n - 1)
         IN  shorter \cup UNION {{Append(l, e) : e \in S \ Range(l)} :
                                    l \in {x \in shorter : Len(x) = n - 1}}

\* what a search may answer: it raises, or it returns a list (maybe empty)
Answers(lists) ==
    {[raised |-> TRUE, results |-> <<>>]}
    \cup {[raised |-> FALSE, results |-> l] : l \in lists}

\* the results DDGS().text may return to the research handlers and to the
\* code search
ResearchDocs == {WGravity, WForum, WAlbum}
CodeDocs == {WCode, WForum}

WikiAnswers == Answers(Lists(WikiTitles, MaxWikiHits))
WebAnswers == Answers(Lists(ResearchDocs, MaxWebHits))
CodeAnswers == Answers(Lists(CodeDocs, MaxCodeHits))

\* an answer as the operators above take it: "raise" or the list
Outcome(answer) == IF answer.raised THEN "raise" ELSE answer.results

\* get_weather: None ("") or the report of the weather service
WeatherReports ==
    {"", "Clear sky in Paris, France. Temp: 21 C, Humidity: 40%, Wind: 10 km/h."}

\* generate_chart_image: None ("") or the encoded image
ChartImages == {"", "iVBORw0KGgo="}

\* StructuredDataAnalyzer.parse_csv_content reports an error for a content
\* without a non-blank line
csv_error(file_content) ==
    LET lines == StripAll(Split(file_content, "\n"))
    IN  \/ file_content = ""
        \/ \A k \in 1..Len(lines) : lines[k] = ""

\* StructuredDataAnalyzer.generate_data_insights for a table without a
\* numeric column, as the files of the model are
generate_data_insights(file_content) ==
    <<"This dataset appears to be primarily text-based or categorical.">>

\* TextAnalyzer.extract_keywords(content, top_n=5) and analyze_sentiment for
\* the text file of the model
extract_keywords(file_content) ==
    IF file_content = FileNotes.content
    THEN <<"great", "growth", "strong", "success">> ELSE <<>>

analyze_sentiment(file_content) ==
    IF file_content = FileNotes.content THEN "positive" ELSE "neutral"

(***************************************************************************)
(* The retrieval of candidates, shared by the two lookups                  *)
(***************************************************************************)
\* a retrieval that gives up when the reference source raises
retrieve_abort(wiki, web, quick) ==
    IF wiki.raised THEN <<>>
    ELSE WikiCandidates(wiki.results, quick)
         \o (IF web.raised THEN <<>> ELSE WebCandidates(web.results, quick))

\* the candidates after the two sources were queried: a source that raises
\* contributes none
retrieve(wiki, web, quick) ==
    (IF wiki.raised THEN <<>> ELSE WikiCandidates(wiki.results, quick))
    \o (IF web.raised THEN <<>> ELSE WebCandidates(web.results, quick))

DeepCandidateLists == {retrieve(a, b, FALSE) : a \in WikiAnswers, b \in WebAnswers}
QuickCandidateLists == {retrieve(a, b, TRUE) : a \in WikiAnswers, b \in WebAnswers}

\* the messages that reach deep_wikipedia_research in MAXY1_2 or MAXY1_3
ResearchQueries ==
    {m \in Messages : is_research_query(m) \/ inquiry_depth(m) = "deep"}

\* the messages that reach quick_wikipedia_lookup in MAXY1_1 or MAXY1_3
QuickQueries ==
    {m \in Messages : \/ analyze_user_intent_11(m).knowledge
                      \/ should_use_wikipedia(m)
                      \/ Len(SplitWs(m)) <= 3}

\* the syntheses, computed once for each query and candidate list
DeepResults ==
    [m \in ResearchQueries, cands \in DeepCandidateLists |-> deep_synthesis(m, cands)]
QuickResults ==
    [m \in QuickQueries, cands \in QuickCandidateLists |-> quick_synthesis(m, cands)]
WebSearchResults ==
    [m \in ResearchQueries, b \in WebAnswers |-> perform_web_search(m, Outcome(b))]

Depths == {"surface", "moderate", "deep"}

\* the texts format_research_response is given
Reports ==
    {DeepResults[m, cands].response : m \in ResearchQueries, cands \in DeepCandidateLists}
    \cup {WebSearchResults[m, b].response : m \in ResearchQueries, b \in WebAnswers}

Formatted ==
    [raw \in Reports, depth \in Depths |-> format_research_response(raw, depth)]

\* "does not reside" in result['response'], for each report
DoesNotReside == [raw \in Reports |-> Contains(raw, "does not reside")]

(***************************************************************************)
(* CreditManager.  config reads MAX_CREDITS_PER_USER and                   *)
(* CREDIT_REFRESH_HOURS from the environment (at least 1 each); the model  *)
(* is configured with small values and counts time in hours.               *)
(***************************************************************************)
MAX_CREDITS_PER_USER == 2
CREDIT_REFRESH_HOURS == 2
MaxClock == 5

UserIds == {"anon_1", "anon_2"}

\* the entry get_or_create_user makes for a new user (the fields the
\* credit logic reads)
NewUser(now) ==
    [credits_remaining |-> MAX_CREDITS_PER_USER, last_reset |-> now,
     total_messages_sent |-> 0]

\* a should_refresh that does not wait for the refresh time
should_refresh_early(user, now) ==
    user.credits_remaining < MAX_CREDITS_PER_USER

should_refresh(user, now) ==
    /\ user.credits_remaining < MAX_CREDITS_PER_USER
    /\ now >= user.last_reset + CREDIT_REFRESH_HOURS

refresh_credits(user, now) ==
    [user EXCEPT !.credits_remaining = MAX_CREDITS_PER_USER, !.last_reset = now]

\* the refresh the three methods make when it is due
Refreshed(data, user_id, now) ==
    IF should_refresh(data[user_id], now)
    THEN [data EXCEPT ![user_id] = refresh_credits(data[user_id], now)]
    ELSE data

\* credits_data after get_or_create_user(user_id)
get_or_create_user(data, user_id, now) ==
    Refreshed(IF data[user_id] = None
              THEN [data EXCEPT ![user_id] = NewUser(now)]
              ELSE data,
              user_id, now)

\* use_credit(user_id): the success flag and credits_data after the call
use_credit(data, user_id, now) ==
    LET spend(ready) ==
            IF ready[user_id].credits_remaining > 0
            THEN [success |-> TRUE,
                  data |-> [ready EXCEPT
                               ![user_id].credits_remaining = @ - 1,
                               ![user_id].total_messages_sent = @ + 1]]
            ELSE [success |-> FALSE, data |-> ready]
    IN  spend(Refreshed(get_or_create_user(data, user_id, now), user_id, now))

\* credits_data after get_user_credits(user_id)
get_user_credits(data, user_id, now) ==
    IF data[user_id] = None THEN get_or_create_user(data, user_id, now)
    ELSE Refreshed(data, user_id, now)

(***************************************************************************)
(* The state of the program                                                *)
(***************************************************************************)
VARIABLES
    slang_on,   \* slang_manager.enabled
    pc,         \* where the request in progress stands
    req,        \* the arguments of the call in progress
    resp,       \* the local variable response ("" for None), then the result's
    conf,       \* the local variable confidence, then the result's
    exc,        \* the exception that reached the caller, "" for none
    trace,      \* the handlers of the MAXY1_3 cascade whose body was entered
    calls,      \* the calls made to the collaborators, in order
    frame,      \* the local variables of the lookup that has just run
    produced,   \* the (text, confidence) pair as the handler produced it
    yielded,    \* what the handler entered last got from its collaborator
    credits_data,   \* credit_manager.credits_data, None for a user not in it
    utcnow      \* datetime.utcnow(), in hours

\* the state of the credit manager and its clock
credit_vars == <<credits_data, utcnow>>

vars == <<slang_on, pc, req, resp, conf, exc, trace, calls, frame, produced,
          yielded, credits_data, utcnow>>

NoRequest ==
    [model |-> "", message |-> "", history |-> <<>>, user_name |-> "",
     file_data |-> NoFile, router |-> FALSE]

\* perform_web_search was not called
NoFallback == [success |-> FALSE, response |-> "", confidence |-> Rat(0, 1)]

NoFrame ==
    [kind |-> "", wiki_raised |-> FALSE, wiki_results |-> <<>>,
     web_raised |-> FALSE, web_results |-> <<>>, candidates |-> <<>>,
     fallback |-> NoFallback]

NoPair == [text |-> "", confidence |-> Rat(0, 1)]

\* no collaborator has returned to the handler entered last
NotReturned == [returned |-> FALSE, text |-> ""]

\* confidence = 0.85, the initial value in MAXY1_3.process_message
DefaultConfidence == Rat(85, 100)

Init ==
    /\ slang_on = FALSE
    /\ pc = "idle"
    /\ req = NoRequest
    /\ resp = ""
    /\ conf = Rat(0, 1)
    /\ exc = ""
    /\ trace = <<>>
    /\ calls = <<>>
    /\ frame = NoFrame
    /\ produced = NoPair
    /\ yielded = NotReturned
    /\ credits_data = [user_id \in UserIds |-> None]
    /\ utcnow = 0

\* an order in which the quick lookup comes before the greeting
Order13_lookup_first ==
    <<"weather", "time_date", "code", "website", "chart", "stock", "file",
      "joke", "research", "conversation", "quick_lookup", "greeting",
      "calculation", "help", "final">>

\* the declared order of the MAXY1_3 cascade
Order13 ==
    <<"weather", "time_date", "code", "website", "chart", "stock", "file",
      "joke", "research", "conversation", "greeting", "calculation", "help",
      "quick_lookup", "final">>

(***************************************************************************)
(* ModelRouter.process and the direct call of MAXY1_3.process_message      *)
(***************************************************************************)
\* the result is in place: the call returns it
Answer(text, confidence, pair) ==
    /\ resp' = text
    /\ conf' = confidence
    /\ produced' = pair
    /\ yielded' = yielded
    /\ exc' = ""
    /\ pc' = "done"

\* an exception leaves process_message: nothing is returned
Raise(exception) ==
    /\ resp' = ""
    /\ conf' = conf
    /\ produced' = produced
    /\ yielded' = NotReturned
    /\ exc' = exception
    /\ pc' = "done"

process(model_name, message, conversation_history, user_name) ==
    /\ pc = "idle"
    /\ req' = [model |-> tier_of(model_name), message |-> message,
               history |-> conversation_history, user_name |-> user_name,
               file_data |-> NoFile, router |-> TRUE]
    /\ UNCHANGED <<credit_vars, trace, calls, frame>>
    /\ IF toggle_command(message) = "enable"
       THEN /\ slang_on' = TRUE
            /\ \E slang \in random_slang(TRUE, TRUE) :
                  Answer(EnableText(slang), Rat(1, 1), NoPair)
       ELSE IF toggle_command(message) = "disable"
       THEN /\ slang_on' = FALSE
            /\ Answer(DisableText, Rat(1, 1), NoPair)
       ELSE /\ pc' = (IF tier_of(model_name) = "maxy1.3" THEN Order13[1]
                      ELSE tier_of(model_name))
            /\ conf' = (IF tier_of(model_name) = "maxy1.3" THEN DefaultConfidence
                        ELSE conf)
            /\ UNCHANGED <<slang_on, resp, exc, produced, yielded>>

\* MAXY1_3.process_message called with a file, as the analysis tools do:
\* without a history and without a user name
process_message_13(message, file_data) ==
    /\ pc = "idle"
    /\ req' = [model |-> "maxy1.3", message |-> message,
               history |-> <<>>, user_name |-> "",
               file_data |-> file_data, router |-> FALSE]
    /\ pc' = Order13[1]
    /\ conf' = DefaultConfidence
    /\ UNCHANGED <<credit_vars, slang_on, resp, exc, trace, yielded, calls, frame, produced>>

\* a return after which the slang flag is back at its default
Return_forget ==
    /\ pc = "done"
    /\ pc' = "idle"
    /\ req' = NoRequest
    /\ resp' = ""
    /\ conf' = Rat(0, 1)
    /\ exc' = ""
    /\ trace' = <<>>
    /\ calls' = <<>>
    /\ frame' = NoFrame
    /\ produced' = NoPair
    /\ yielded' = NotReturned
    /\ slang_on' = FALSE
    /\ UNCHANGED credit_vars

\* the caller has its result (or its exception): the next call starts afresh
Return ==
    /\ pc = "done"
    /\ pc' = "idle"
    /\ req' = NoRequest
    /\ resp' = ""
    /\ conf' = Rat(0, 1)
    /\ exc' = ""
    /\ trace' = <<>>
    /\ calls' = <<>>
    /\ frame' = NoFrame
    /\ produced' = NoPair
    /\ yielded' = NotReturned
    /\ UNCHANGED <<credit_vars, slang_on>>

(***************************************************************************)
(* The lookups: quick_wikipedia_lookup and deep_wikipedia_research up to    *)
(* the candidate list                                                      *)
(***************************************************************************)
\* the calls of a lookup: the search, one page per title, the web search
LookupCalls(wiki) ==
    <<"wikipedia.search">>
    \o [k \in 1..Len(wiki.results) |-> "wikipedia.page"]
    \o <<"DDGS.text">>

\* the lookup runs for the answers the two sources give
Lookup(quick, after) ==
    \E wiki \in WikiAnswers, web \in WebAnswers :
        /\ frame' = [kind |-> IF quick THEN "quick" ELSE "deep",
                     wiki_raised |-> wiki.raised, wiki_results |-> wiki.results,
                     web_raised |-> web.raised, web_results |-> web.results,
                     candidates |-> retrieve(wiki, web, quick),
                     fallback |-> NoFallback]
        /\ calls' = calls \o LookupCalls(wiki)
        /\ pc' = after

(***************************************************************************)
(* MAXY1_1.process_message                                                 *)
(***************************************************************************)
\* lines 576-579: a greeting inside a conversation is answered anew
Adjusted11(pair, message, conversation_history) ==
    IF /\ analyze_casual_context(conversation_history) = "continuing_conversation"
       /\ Intent11[message].greeting
    THEN [text |-> "I'm listening! Go on.", confidence |-> Rat(99, 100)]
    ELSE pair

\* lines 582-590: the text bounded to three sentences, then styled unless
\* the message is a greeting
Styled11(text, message, enabled) ==
    IF ~Intent11[message].is_new_user /\ ~Intent11[message].greeting
    THEN enhance_text(BoundSentences(text), enabled, UseSlang[message])
    ELSE {BoundSentences(text)}

\* process_message from the pair of generate_concise_response to the result
Finish11(pair) ==
    LET styled(adjusted) ==
            \E text \in Styled11(adjusted.text, req.message, slang_on) :
                Answer(text, adjusted.confidence, pair)
    IN  styled(Adjusted11(pair, req.message, req.history))

\* one of the replies random.choice may pick goes through process_message
FinishOne(options) == \E k \in 1..Len(options) : Finish11(options[k])

\* generate_concise_response, priority 1: the lookup is called
lookup_first(message) ==
    Intent11[message].knowledge \/ should_use_wikipedia(message)

\* the simple-task branch looks a short message up
lookup_task(message) ==
    /\ concise_branch_of(message) = "simple_task"
    /\ Len(SplitWs(message)) <= 3
    /\ ~UseSlang[message]

MAXY1_1_lookup ==
    /\ pc = "maxy1.1"
    /\ lookup_first(req.message)
    /\ Lookup(TRUE, "maxy1.1.found")
    /\ UNCHANGED <<credit_vars, slang_on, req, resp, conf, exc, trace, yielded, produced>>

\* the lookup of priority 1 has returned
MAXY1_1_knowledge ==
    /\ pc = "maxy1.1.found"
    /\ LET found(wiki_result) ==
           IF wiki_result # ""
           THEN /\ Finish11([text |-> KnowledgeReply(wiki_result),
                             confidence |-> Rat(92, 100)])
                /\ frame' = NoFrame
                /\ UNCHANGED <<credit_vars, slang_on, req, trace, calls>>
           ELSE /\ pc' = "maxy1.1.reply"
                /\ frame' = NoFrame
                /\ UNCHANGED <<credit_vars, slang_on, req, resp, conf, exc, trace, yielded, calls, produced>>
       IN  found(QuickResults[req.message, frame.candidates])

\* the branches of generate_concise_response below priority 1
MAXY1_1_reply ==
    /\ \/ pc = "maxy1.1.reply"
       \/ pc = "maxy1.1" /\ ~lookup_first(req.message)
    /\ IF lookup_task(req.message)
       THEN /\ Lookup(TRUE, "maxy1.1.task")
            /\ UNCHANGED <<credit_vars, slang_on, req, resp, conf, exc, trace, yielded, produced>>
       ELSE LET reply(asks) ==
                    /\ \E weather_info \in (IF asks THEN WeatherReports ELSE {""}),
                          slang \in random_slang(slang_on, UseSlang[req.message]) :
                          FinishOne(concise_options(req.message, req.user_name,
                                                    slang, weather_info, ""))
                    /\ calls' = IF asks THEN Append(calls, "get_weather") ELSE calls
                    /\ UNCHANGED <<credit_vars, slang_on, req, trace, frame>>
            IN  reply(/\ concise_branch_of(req.message) = "weather"
                      /\ concise_city(req.message) # "")

\* the lookup of the simple-task branch has returned
MAXY1_1_task ==
    /\ pc = "maxy1.1.task"
    /\ \E slang \in random_slang(slang_on, UseSlang[req.message]) :
          FinishOne(concise_options(req.message, req.user_name, slang, "",
                                    QuickResults[req.message, frame.candidates]))
    /\ frame' = NoFrame
    /\ UNCHANGED <<credit_vars, slang_on, req, trace, calls>>

(***************************************************************************)
(* MAXY1_2.process_message                                                 *)
(***************************************************************************)
MAXY1_2_research ==
    /\ pc = "maxy1.2"
    /\ IsResearch[req.message]
    /\ Lookup(FALSE, "maxy1.2.found")
    /\ UNCHANGED <<credit_vars, slang_on, req, resp, conf, exc, trace, yielded, produced>>

\* the second search of search_real_code when it is not made
NotAsked == [raised |-> FALSE, results |-> <<>>]

\* lines 1057-1060 and 1578-1581: the web search replaces a failed research
with_fallback(result, web_result) ==
    IF (~result.success \/ DoesNotReside[result.response]) /\ web_result.success
    THEN web_result ELSE result

\* lines 1057-1058: the research is unsuccessful, or its topic "does not
\* reside" in the datasets
fallback_asked(result) == ~result.success \/ DoesNotReside[result.response]

\* deep_wikipedia_research has returned a failure: perform_web_search is called
MAXY1_2_fallback ==
    /\ pc = "maxy1.2.found"
    /\ fallback_asked(DeepResults[req.message, frame.candidates])
    /\ \E web \in WebAnswers :
          frame' = [frame EXCEPT !.fallback = WebSearchResults[req.message, web]]
    /\ calls' = Append(calls, "DDGS.text")
    /\ pc' = "maxy1.2.fallback"
    /\ UNCHANGED <<credit_vars, slang_on, req, resp, conf, exc, trace, produced, yielded>>

\* the research result, or the web result in its place, goes through the
\* formatting of the depth
MAXY1_2_format ==
    /\ \/ pc = "maxy1.2.fallback"
       \/ /\ pc = "maxy1.2.found"
          /\ ~fallback_asked(DeepResults[req.message, frame.candidates])
    /\ LET answer(final, out) ==
               IF out.raised # "" THEN Raise(out.raised)
               ELSE Answer(out.text, final.confidence,
                           [text |-> final.response, confidence |-> final.confidence])
           format(final) ==
               answer(final,
                      Formatted[final.response,
                                Context12[req.message, req.history].inquiry_depth])
       IN  format(with_fallback(DeepResults[req.message, frame.candidates],
                                frame.fallback))
    /\ frame' = NoFrame
    /\ UNCHANGED <<credit_vars, slang_on, req, trace, calls>>

\* the conversation mode
MAXY1_2_converse ==
    /\ pc = "maxy1.2"
    /\ ~IsResearch[req.message]
    /\ LET one(options) ==
               \E k \in 1..Len(options) :
                   \E text \in enhance_text(PadSentences(options[k].text), slang_on,
                                            UseSlang[req.message]) :
                       Answer(text, options[k].confidence, options[k])
       IN  \E slang \in random_slang(slang_on, UseSlang[req.message]) :
              one(detailed_options(Context12[req.message, req.history],
                                   req.message, req.user_name, slang))
    /\ UNCHANGED <<credit_vars, slang_on, req, trace, calls, frame>>

(***************************************************************************)
(* MAXY1_3.process_message: the cascade of handlers                        *)
(***************************************************************************)
\* analyze_stock: None ("") or the report on the ticker
StockReports ==
    {"", "### Stock Analysis: Apple Inc.\n\n**Current Price:** $190.00\n"
         \o "**Analyst Recommendation:** Buy"}

\* the two searches of search_real_code: the retry is made only when the
\* first search returns an empty list
CodeSearches ==
    {<<a, b>> \in CodeAnswers \X CodeAnswers :
        (a.raised \/ Len(a.results) > 0) => b = NotAsked}

SearchCalls(search) ==
    IF search[1].raised \/ Len(search[1].results) > 0
    THEN <<"DDGS.text">>
    ELSE <<"DDGS.text", "DDGS.text">>

\* lines 1626-1629: the technical search of the final fallback
technical_fallback(message, first, retry) ==
    LET kept(response) ==
            IF /\ response # ""
               /\ Contains(Lower(response), "research insight")
               /\ Contains(Lower(response), "couldn't find")
            THEN "" ELSE response
    IN  kept(generate_code("technical", message, first, retry))

\* the code each search finds, computed once
CodeResults ==
    [m \in {x \in Messages : Intent13[x].is_code}, search \in CodeSearches |->
        generate_code(detected_lang(m), m, Outcome(search[1]), Outcome(search[2]))]
SiteResults ==
    [m \in {x \in Messages : Intent13[x].is_website}, search \in CodeSearches |->
        search_real_code("html", website_query(website_type(m)),
                         Outcome(search[1]), Outcome(search[2]))]
TechnicalResults ==
    [m \in Messages, search \in CodeSearches |->
        technical_fallback(m, Outcome(search[1]), Outcome(search[2]))]

\* a guard that does not look at the response
unanswered_ignored(response) == TRUE

\* `not response`
unanswered(response) == response = ""

\* the guards with a code search that does not look at the chart flag
Guard13_code_first(handler, request) ==
    LET guard(analysis, intents) ==
        CASE handler = "weather" -> intents.weather
          [] handler = "time_date" -> intents.time_query \/ intents.date_query
          [] handler = "code" -> analysis.is_code
          [] handler = "website" -> analysis.is_website
          [] handler = "chart" -> analysis.is_chart
          [] handler = "stock" -> stock_match(Upper(request.message)) # ""
          [] handler = "file" -> request.file_data # NoFile
          [] handler = "joke" -> intents.entertainment
          [] handler = "research" -> analysis.is_research \/ analysis.depth = "deep"
          [] handler = "conversation" ->
                analysis.topics.philosophy \/ analysis.topics.personal
          [] handler = "greeting" -> intents.greeting \/ intents.identity
          [] handler = "calculation" -> intents.calculation
          [] handler = "help" -> intents.help
          [] handler = "quick_lookup" ->
                analysis.word_count <= 3 /\ ~UseSlang[request.message]
          [] handler = "final" -> TRUE
    IN  guard(Intent13[request.message], Intent13[request.message].intents)

\* the condition under which the body of a handler is entered, the response
\* being unset
Guard13(handler, request) ==
    LET guard(analysis, intents) ==
        CASE handler = "weather" -> intents.weather
          [] handler = "time_date" -> intents.time_query \/ intents.date_query
          [] handler = "code" -> analysis.is_code /\ ~analysis.is_chart
          [] handler = "website" -> analysis.is_website
          [] handler = "chart" -> analysis.is_chart
          [] handler = "stock" -> stock_match(Upper(request.message)) # ""
          [] handler = "file" -> request.file_data # NoFile
          [] handler = "joke" -> intents.entertainment
          [] handler = "research" -> analysis.is_research \/ analysis.depth = "deep"
          [] handler = "conversation" ->
                analysis.topics.philosophy \/ analysis.topics.personal
          [] handler = "greeting" -> intents.greeting \/ intents.identity
          [] handler = "calculation" -> intents.calculation
          [] handler = "help" -> intents.help
          [] handler = "quick_lookup" ->
                analysis.word_count <= 3 /\ ~UseSlang[request.message]
          [] handler = "final" -> TRUE
    IN  guard(Intent13[request.message], Intent13[request.message].intents)

Guards13 == [h \in Range(Order13), m \in Messages, f \in Files \cup {NoFile} |->
                Guard13(h, [message |-> m, file_data |-> f])]

\* a cascade that builds the result as soon as a handler was gone through
NextHandler_stop(h) == "result"

\* the handler after h in the cascade; the result is built after the last
NextHandler(h) ==
    LET k == CHOOSE i \in 1..Len(Order13) : Order13[i] = h
    IN  IF k = Len(Order13) THEN "result" ELSE Order13[k + 1]

\* the body of the handler at pc is entered
Entered(h) ==
    /\ pc = h
    /\ unanswered(resp)
    /\ Guards13[h, req.message, req.file_data]
    /\ trace' = Append(trace, h)

\* the handler at pc is passed over
Passed(h) ==
    /\ pc = h
    /\ ~(unanswered(resp) /\ Guards13[h, req.message, req.file_data])
    /\ pc' = NextHandler(h)
    /\ UNCHANGED <<credit_vars, slang_on, req, resp, conf, exc, trace, calls, frame, produced,
                   yielded>>

\* the handler h has what its collaborator returned ("" for None): a text
\* becomes the response with the handler's confidence, None leaves both
Yield(h, text, confidence) ==
    /\ yielded' = [returned |-> TRUE, text |-> text]
    /\ resp' = text
    /\ conf' = IF text # "" THEN confidence ELSE conf
    /\ produced' = IF text # "" THEN [text |-> text, confidence |-> confidence]
                   ELSE produced
    /\ exc' = ""
    /\ pc' = NextHandler(h)

Handle_weather ==
    \/ Passed("weather")
    \/ /\ Entered("weather")
       /\ IF weather_city(req.message) = ""
          THEN /\ Yield("weather", "", Rat(95, 100))
               /\ calls' = calls
          ELSE \E weather_info \in WeatherReports :
                  /\ Yield("weather",
                           IF weather_info = "" THEN "" ELSE WeatherText(weather_info),
                           Rat(95, 100))
                  /\ calls' = Append(calls, "get_weather")
       /\ UNCHANGED <<credit_vars, slang_on, req, frame>>

Handle_time_date ==
    \/ Passed("time_date")
    \/ /\ Entered("time_date")
       /\ Yield("time_date",
                IF Intent13[req.message].intents.time_query THEN TimeText ELSE DateText,
                Rat(97, 100))
       /\ UNCHANGED <<credit_vars, slang_on, req, calls, frame>>

Handle_code ==
    \/ Passed("code")
    \/ /\ Entered("code")
       /\ \E search \in CodeSearches :
             /\ Yield("code", CodeResults[req.message, search], Rat(96, 100))
             /\ calls' = calls \o SearchCalls(search)
       /\ UNCHANGED <<credit_vars, slang_on, req, frame>>

Handle_website ==
    \/ Passed("website")
    \/ /\ Entered("website")
       /\ \E search \in CodeSearches :
             LET answer(research_code) ==
                     Yield("website",
                           IF research_code = "" THEN ""
                           ELSE WebsiteText(website_type(req.message), research_code),
                           Rat(95, 100))
             IN  /\ answer(SiteResults[req.message, search])
                 /\ calls' = calls \o SearchCalls(search)
       /\ UNCHANGED <<credit_vars, slang_on, req, frame>>

Handle_chart ==
    \/ Passed("chart")
    \/ /\ Entered("chart")
       /\ \E base64_image \in ChartImages :
             /\ Yield("chart",
                      IF base64_image = "" THEN "" ELSE ChartText(req.message),
                      Rat(95, 100))
             /\ calls' = Append(calls, "generate_chart_image")
       /\ UNCHANGED <<credit_vars, slang_on, req, frame>>

\* lines 1541-1549: the pattern holds the lower-case words stock, price and
\* ticker and is searched in message.upper()
Handle_stock ==
    IF unanswered(resp) /\ Guards13["stock", req.message, req.file_data]
    THEN /\ Entered("stock")
         /\ \E stock_analysis \in StockReports :
               /\ Yield("stock", stock_analysis, Rat(95, 100))
               /\ calls' = Append(calls, "analyze_stock")
         /\ UNCHANGED <<credit_vars, slang_on, req, frame>>
    ELSE Passed("stock")

Handle_file ==
    \/ Passed("file")
    \/ /\ Entered("file")
       /\ LET file_name == req.file_data.name
              file_content == req.file_data.content
          IN  IF EndsWith(Lower(file_name), ".csv")
              THEN Yield("file",
                         IF csv_error(file_content) THEN ""
                         ELSE CsvText(file_name, generate_data_insights(file_content)),
                         Rat(98, 100))
              ELSE Yield("file",
                         DocumentText(file_name, analyze_sentiment(file_content),
                                      extract_keywords(file_content)),
                         Rat(95, 100))
       /\ UNCHANGED <<credit_vars, slang_on, req, calls, frame>>

Handle_joke ==
    \/ Passed("joke")
    \/ /\ Entered("joke")
       /\ \E k \in 1..Len(Jokes13) : Yield("joke", JokeText(Jokes13[k]), Rat(92, 100))
       /\ UNCHANGED <<credit_vars, slang_on, req, calls, frame>>

\* the research handler calls deep_wikipedia_research
Handle_research ==
    \/ Passed("research")
    \/ /\ Entered("research")
       /\ Lookup(FALSE, "research.found")
       /\ yielded' = NotReturned
       /\ UNCHANGED <<credit_vars, slang_on, req, resp, conf, exc, produced>>

\* deep_wikipedia_research has returned a failure: perform_web_search is called
Handle_research_fallback ==
    /\ pc = "research.found"
    /\ fallback_asked(DeepResults[req.message, frame.candidates])
    /\ \E web \in WebAnswers :
          frame' = [frame EXCEPT !.fallback = WebSearchResults[req.message, web]]
    /\ calls' = Append(calls, "DDGS.text")
    /\ pc' = "research.fallback"
    /\ UNCHANGED <<credit_vars, slang_on, req, resp, conf, exc, trace, produced, yielded>>

\* a successful result becomes the response, formatted for the depth
Handle_research_found ==
    /\ \/ pc = "research.fallback"
       \/ /\ pc = "research.found"
          /\ ~fallback_asked(DeepResults[req.message, frame.candidates])
    /\ LET answer(final, out) ==
               IF out.raised # "" THEN Raise(out.raised)
               ELSE Yield("research", out.text, final.confidence)
           format(final) ==
               answer(final,
                      IF final.success
                      THEN Formatted[final.response, Intent13[req.message].depth]
                      ELSE [raised |-> "", text |-> ""])
       IN  format(with_fallback(DeepResults[req.message, frame.candidates],
                                frame.fallback))
    /\ frame' = NoFrame
    /\ UNCHANGED <<credit_vars, slang_on, req, trace, calls>>

\* the philosophy and personal handler passes the analysis of the message
\* where generate_detailed_response expects a conversation context
Handle_conversation ==
    \/ Passed("conversation")
    \/ /\ Entered("conversation")
       /\ LET one(options) ==
                  \E k \in 1..Len(options) :
                      Yield("conversation", options[k].text, options[k].confidence)
              detailed(analysis) ==
                  IF detailed_raises(analysis)
                  THEN Raise("KeyError")
                  ELSE \E slang \in random_slang(slang_on, UseSlang[req.message]) :
                          one(detailed_options(analysis, req.message,
                                               req.user_name, slang))
          IN  detailed(Intent13[req.message])
       /\ UNCHANGED <<credit_vars, slang_on, req, calls, frame>>

Handle_greeting ==
    \/ Passed("greeting")
    \/ /\ Entered("greeting")
       /\ IF Intent13[req.message].intents.greeting
          THEN \E slang \in random_slang(slang_on, UseSlang[req.message]) :
                  Yield("greeting", GreetingText(req.user_name, slang), Rat(98, 100))
          ELSE Yield("greeting", IdentityText, Rat(96, 100))
       /\ UNCHANGED <<credit_vars, slang_on, req, calls, frame>>

Handle_calculation ==
    \/ Passed("calculation")
    \/ /\ Entered("calculation")
       /\ Yield("calculation", CalculationText, Rat(90, 100))
       /\ UNCHANGED <<credit_vars, slang_on, req, calls, frame>>

Handle_help ==
    \/ Passed("help")
    \/ /\ Entered("help")
       /\ Yield("help", HelpText, Rat(98, 100))
       /\ UNCHANGED <<credit_vars, slang_on, req, calls, frame>>

\* the final fallbacks: first the quick lookup of a short message
Handle_quick_lookup ==
    \/ Passed("quick_lookup")
    \/ /\ Entered("quick_lookup")
       /\ Lookup(TRUE, "quick_lookup.found")
       /\ yielded' = NotReturned
       /\ UNCHANGED <<credit_vars, slang_on, req, resp, conf, exc, produced>>

Handle_quick_lookup_found ==
    /\ pc = "quick_lookup.found"
    /\ Yield("quick_lookup", QuickResults[req.message, frame.candidates], Rat(92, 100))
    /\ frame' = NoFrame
    /\ UNCHANGED <<credit_vars, slang_on, req, trace, calls>>

\* then the technical search, and the templated prompt when it finds nothing
Handle_final ==
    \/ Passed("final")
    \/ /\ Entered("final")
       /\ \E search \in CodeSearches,
             slang \in random_slang(slang_on, UseSlang[req.message]) :
             LET answer(response) ==
                     Yield("final",
                           IF response = "" THEN FinalText(slang) ELSE response,
                           DefaultConfidence)
             IN  /\ answer(TechnicalResults[req.message, search])
                 /\ calls' = calls \o SearchCalls(search)
       /\ UNCHANGED <<credit_vars, slang_on, req, frame>>

\* the reports the slang enhancement is decided for once
EnhanceableReports ==
    [text \in {Formatted[raw, depth].text : raw \in Reports, depth \in Depths} |->
        Enhanceable(text)]

may_enhance(response) ==
    LET known(reports) ==
            IF response \in DOMAIN reports THEN reports[response]
            ELSE Enhanceable(response)
    IN  known(EnhanceableReports)

\* lines 1636-1649: the slang enhancement and the result
MAXY1_3_result ==
    /\ pc = "result"
    /\ \E text \in (IF may_enhance(resp)
                    THEN enhance_text(resp, slang_on, UseSlang[req.message])
                    ELSE {resp}) :
          /\ resp' = text
          /\ pc' = "done"
    /\ UNCHANGED <<credit_vars, slang_on, req, conf, exc, trace, calls, frame, produced, yielded>>

Next ==
    \/ \E model_name \in Models, message \in Messages,
          conversation_history \in Histories, user_name \in UserNames :
          process(model_name, message, conversation_history, user_name)
    \/ \E message \in FileMessages, file_data \in Files :
          process_message_13(message, file_data)
    \/ Return
    \/ MAXY1_1_lookup
    \/ MAXY1_1_knowledge
    \/ MAXY1_1_reply
    \/ MAXY1_1_task
    \/ MAXY1_2_research
    \/ MAXY1_2_fallback
    \/ MAXY1_2_format
    \/ MAXY1_2_converse
    \/ Handle_weather
    \/ Handle_time_date
    \/ Handle_code
    \/ Handle_website
    \/ Handle_chart
    \/ Handle_stock
    \/ Handle_file
    \/ Handle_joke
    \/ Handle_research
    \/ Handle_research_fallback
    \/ Handle_research_found
    \/ Handle_conversation
    \/ Handle_greeting
    \/ Handle_calculation
    \/ Handle_help
    \/ Handle_quick_lookup
    \/ Handle_quick_lookup_found
    \/ Handle_final
    \/ MAXY1_3_result

Spec == Init /\ [][Next]_vars

(***************************************************************************)
(* KnowledgeSynthesizer called on its own: score_relevance for a query and *)
(* a candidate, verify_facts for a query and a list of candidates          *)
(***************************************************************************)
MaxQueryWords == 3
MaxRankedWords == 2
MaxRanked == 2

QueryWords == {"Who", "is", "Marie", "Curie", "manga", "reddit"}

\* the queries of at most n words
RECURSIVE Phrases(_)
Phrases(n) ==
    IF n = 0 THEN {""}
    ELSE LET shorter == Phrases(n - 1)
         IN  shorter \cup {IF p = "" THEN w ELSE p \o " " \o w :
                              p \in shorter, w \in QueryWords}

Queries == Phrases(MaxQueryWords)
RankedQueries == Phrases(MaxRankedWords)

\* the candidates handed to the ranking: a page, web results, an empty one
RankDocs ==
    {[title |-> "Marie Curie", body |-> "Marie Curie studied gravity in Paris.",
      url |-> "", source |-> "wikipedia"],
     [title |-> WAlbum.title, body |-> WAlbum.body, url |-> "", source |-> "web"],
     [title |-> "Curie on Reddit", body |-> "A reddit comment on Marie Curie.",
      url |-> "", source |-> "web"],
     [title |-> "Manga list", body |-> "A manga recommendation.",
      url |-> "", source |-> "web"],
     [title |-> "", body |-> "", url |-> "", source |-> "web"]}

score_relevance_call(query, res) ==
    /\ pc = "idle"
    /\ pc' = "scored"
    /\ req' = [NoRequest EXCEPT !.message = query]
    /\ frame' = [NoFrame EXCEPT !.kind = "score", !.candidates = <<res>>]
    /\ conf' = score_relevance(query, res.title, res.body)
    /\ UNCHANGED <<credit_vars, slang_on, resp, exc, trace, calls, produced, yielded>>

verify_facts_call(query, results) ==
    /\ pc = "idle"
    /\ pc' = "ranked"
    /\ req' = [NoRequest EXCEPT !.message = query]
    /\ frame' = [NoFrame EXCEPT !.kind = "rank",
                                !.candidates = verify_facts(query, results)]
    /\ UNCHANGED <<credit_vars, slang_on, resp, conf, exc, trace, calls, produced, yielded>>

\* the thresholds of the callers: the default of get_best_match, the one
\* of quick_wikipedia_lookup, and one half
Thresholds == {Rat(3, 10), Rat(25, 100), Rat(1, 2)}

get_best_match_call(query, results, threshold) ==
    /\ pc = "idle"
    /\ pc' = "matched"
    /\ req' = [NoRequest EXCEPT !.message = query]
    /\ frame' = [kind |-> "match", results |-> results, threshold |-> threshold,
                 best_match |-> get_best_match(query, results, threshold)]
    /\ UNCHANGED <<credit_vars, slang_on, resp, conf, exc, trace, calls, produced, yielded>>

\* the call returns
Returned ==
    /\ pc \in {"scored", "ranked", "matched"}
    /\ pc' = "idle"
    /\ req' = NoRequest
    /\ frame' = NoFrame
    /\ conf' = Rat(0, 1)
    /\ UNCHANGED <<credit_vars, slang_on, resp, exc, trace, calls, produced, yielded>>

NextRank ==
    \/ \E query \in Queries, res \in RankDocs : score_relevance_call(query, res)
    \/ \E query \in RankedQueries, results \in Lists(RankDocs, MaxRanked) :
          verify_facts_call(query, results)
    \/ \E query \in RankedQueries, results \in Lists(RankDocs, MaxRanked),
          threshold \in Thresholds :
          get_best_match_call(query, results, threshold)
    \/ Returned

SpecRank == Init /\ [][NextRank]_vars

(***************************************************************************)
(* The two lookups called on their own                                     *)
(***************************************************************************)
LookupQueries == {"gravity", "what is gravity", "Mercury"}

LookupWebAnswers == Answers(Lists({WGravity, WEmpty}, MaxWebHits))

\* the lookup has run: its candidates, the one it selected, its result
Looked(query, wiki, web, quick, candidates, best_match, result) ==
    /\ pc = "idle"
    /\ pc' = "looked"
    /\ req' = [NoRequest EXCEPT !.message = query]
    /\ calls' = LookupCalls(wiki)
    /\ frame' = [kind |-> IF quick THEN "quick" ELSE "deep",
                 wiki_raised |-> wiki.raised, wiki_results |-> wiki.results,
                 web_raised |-> web.raised, web_results |-> web.results,
                 candidates |-> candidates, best_match |-> best_match,
                 result |-> result]
    /\ UNCHANGED <<credit_vars, slang_on, resp, conf, exc, trace, produced, yielded>>

quick_wikipedia_lookup_call(query, wiki, web) ==
    LET looked(candidates) ==
            Looked(query, wiki, web, TRUE, candidates,
                   IF Len(candidates) = 0 THEN None
                   ELSE get_best_match(query, candidates, Rat(25, 100)),
                   quick_synthesis(query, candidates))
    IN  looked(retrieve(wiki, web, TRUE))

deep_wikipedia_research_call(query, wiki, web) ==
    LET looked(candidates) ==
            Looked(query, wiki, web, FALSE, candidates,
                   IF Len(candidates) = 0 THEN None
                   ELSE SelectBest(verify_facts(query, candidates)),
                   deep_synthesis(query, candidates))
    IN  looked(retrieve(wiki, web, FALSE))

\* the lookup returns
LookupReturned ==
    /\ pc = "looked"
    /\ pc' = "idle"
    /\ req' = NoRequest
    /\ calls' = <<>>
    /\ frame' = NoFrame
    /\ UNCHANGED <<credit_vars, slang_on, resp, conf, exc, trace, produced, yielded>>

NextLookup ==
    \/ \E query \in LookupQueries, wiki \in WikiAnswers, web \in LookupWebAnswers :
          quick_wikipedia_lookup_call(query, wiki, web)
    \/ \E query \in LookupQueries, wiki \in WikiAnswers, web \in LookupWebAnswers :
          deep_wikipedia_research_call(query, wiki, web)
    \/ LookupReturned

SpecLookup == Init /\ [][NextLookup]_vars

(***************************************************************************)
(* The credit manager called by the chat endpoint and the credit endpoints *)
(***************************************************************************)
\* a method of the credit manager has run for the user at the present time
CreditCall(kind, user_id, success, data) ==
    /\ pc = "idle"
    /\ pc' = "called"
    /\ frame' = [kind |-> kind, user_id |-> user_id, success |-> success]
    /\ credits_data' = data
    /\ UNCHANGED <<utcnow, slang_on, req, resp, conf, exc, trace, calls,
                   produced, yielded>>

get_or_create_user_call(user_id) ==
    CreditCall("get_or_create_user", user_id, TRUE,
               get_or_create_user(credits_data, user_id, utcnow))

use_credit_call(user_id) ==
    LET done(result) == CreditCall("use_credit", user_id, result.success, result.data)
    IN  done(use_credit(credits_data, user_id, utcnow))

get_user_credits_call(user_id) ==
    CreditCall("get_user_credits", user_id, TRUE,
               get_user_credits(credits_data, user_id, utcnow))

\* the method returns
CreditReturned ==
    /\ pc = "called"
    /\ pc' = "idle"
    /\ frame' = NoFrame
    /\ UNCHANGED <<credit_vars, slang_on, req, resp, conf, exc, trace, calls,
                   produced, yielded>>

\* an hour passes between two calls
Tick ==
    /\ pc = "idle"
    /\ utcnow < MaxClock
    /\ utcnow' = utcnow + 1
    /\ UNCHANGED <<credits_data, slang_on, pc, req, resp, conf, exc, trace,
                   calls, frame, produced, yielded>>

NextCredit ==
    \/ \E user_id \in UserIds : get_or_create_user_call(user_id)
    \/ \E user_id \in UserIds : use_credit_call(user_id)
    \/ \E user_id \in UserIds : get_user_credits_call(user_id)
    \/ CreditReturned
    \/ Tick

SpecCredit == Init /\ [][NextCredit]_vars

(***************************************************************************)
(* The classifiers called on their own, between changes of the slang flag  *)
(***************************************************************************)
MaxClassified == 2

\* messages with no depth indicator, with one, and with indicators of two
\* levels
IntentMessages ==
    {"hello", "", "macha", "what is gravity", "explain photosynthesis",
     "research the history of rome", "what is the history of rome",
     "explain the basic idea", "explain the science of rain"}

\* a classifier returns descriptor; it reads its argument only and calls no
\* collaborator, so nothing but the record of the call changes
Classified(fn, message, descriptor) ==
    /\ pc = "idle"
    /\ Len(trace) < MaxClassified
    /\ trace' = Append(trace, [fn |-> fn, message |-> message,
                               enabled |-> slang_on, descriptor |-> descriptor])
    /\ UNCHANGED <<credit_vars, slang_on, pc, req, resp, conf, exc, calls, frame, produced,
                   yielded>>

\* a classifier whose descriptor reads the slang flag
analyze_user_intent_call_flag(message) ==
    Classified("MAXY1_3.analyze_user_intent", message,
               [analyze_user_intent(message) EXCEPT
                   !.intents.greeting = @ \/ slang_on])

analyze_user_intent_call(message) ==
    Classified("MAXY1_3.analyze_user_intent", message,
               analyze_user_intent(message))

analyze_user_intent_11_call(message) ==
    Classified("MAXY1_1.analyze_user_intent", message,
               analyze_user_intent_11(message))

is_research_query_call(message) ==
    Classified("MAXY1_2.is_research_query", message,
               is_research_query(message))

analyze_conversation_context_call(message, conversation_history) ==
    Classified("MAXY1_2.analyze_conversation_context", message,
               analyze_conversation_context(message, conversation_history))

\* SlangManager.set_enabled, the one effect of a request that outlives it
set_enabled(value) ==
    /\ pc = "idle"
    /\ slang_on' = value
    /\ UNCHANGED <<credit_vars, pc, req, resp, conf, exc, trace, calls, frame, produced,
                   yielded>>

NextIntent ==
    \/ \E message \in IntentMessages : analyze_user_intent_call(message)
    \/ \E message \in IntentMessages : analyze_user_intent_11_call(message)
    \/ \E message \in IntentMessages : is_research_query_call(message)
    \/ \E message \in IntentMessages, conversation_history \in Histories :
          analyze_conversation_context_call(message, conversation_history)
    \/ \E value \in BOOLEAN : set_enabled(value)

SpecIntent == Init /\ [][NextIntent]_vars

(***************************************************************************)
(* The properties                                                          *)
(***************************************************************************)
Last(seq) == seq[Len(seq)]

IsPrefix(a, b) == Len(a) <= Len(b) /\ a = SubSeq(b, 1, Len(a))

\* the place of a handler in the declared order
Position(h) == CHOOSE i \in 1..Len(Order13) : Order13[i] = h

\* pc values of the MAXY1_3 cascade, up to the point where the result is built
CascadePoints ==
    Range(Order13) \cup {"research.found", "research.fallback",
                         "quick_lookup.found", "result"}

\* how many handlers of the declared order the request has gone through
GoneThrough ==
    IF pc \in Range(Order13) THEN Position(pc) - 1
    ELSE IF pc \in {"research.found", "research.fallback"} THEN Position("research")
    ELSE IF pc = "quick_lookup.found" THEN Position("quick_lookup")
    ELSE Len(Order13)

\* the first n handlers of the declared order whose guard holds for the
\* request, in that order
Applicable(n) ==
    LET holds(h) == Guards13[h, req.message, req.file_data]
    IN  SelectSeq(SubSeq(Order13, 1, n), holds)

\* C1: in the MAXY1_3 cascade, once a handler has set a non-empty response,
\* no later handler is entered, no further call to a collaborator is made,
\* and the response, the confidence and the pair the handler produced stay
\* as that handler set them until the result is built.
C1_ShortCircuit ==
    [][(pc \in Range(Order13) /\ resp # "")
          => /\ trace' = trace
             /\ calls' = calls
             /\ resp' = resp
             /\ conf' = conf
             /\ produced' = produced]_vars

\* a handler has answered and the research handler, whose guard holds for
\* the message, is reached
C1_Witness ==
    /\ pc = "research"
    /\ resp # ""
    /\ trace # <<>>
    /\ Guards13["research", req.message, req.file_data]

C3_AlwaysAnswers ==
    pc = "done" => (exc = "" /\ resp # "")

\* the handler h has what its collaborator returned, in this step
HasReturned(h) ==
    /\ pc \in (IF h = "research" THEN {"research.found", "research.fallback"}
               ELSE IF h = "quick_lookup" THEN {"quick_lookup.found"}
               ELSE {h})
    /\ trace' # <<>>
    /\ Last(trace') = h
    /\ yielded'.returned

\* the first handler after h whose guard holds for the request
NextApplicable(h) ==
    LET later == {i \in (Position(h) + 1)..Len(Order13) :
                     Guards13[Order13[i], req.message, req.file_data]}
    IN  Order13[CHOOSE i \in later : \A j \in later : i <= j]

\* C4: when a handler of the MAXY1_3 cascade whose guard holds gets nothing
\* from its collaborator, no exception is raised, the response stays unset,
\* the confidence is left alone and the cascade goes on with the next handler
\* of the declared order; for 'binary search' whose code search finds
\* nothing, the next handler whose guard holds is the research handler.
C4_NothingIsNotAnError ==
    [][\A h \in Range(Order13) \ {"final"} :
          (HasReturned(h) /\ yielded'.text = "")
             => /\ exc' = ""
                /\ resp' = ""
                /\ conf' = conf
                /\ pc' = Order13[Position(h) + 1]
                /\ (h = "code" /\ req.message = "binary search")
                      => NextApplicable(h) = "research"]_vars

\* the code search found nothing for 'binary search' and the research
\* handler has been entered
C4_Witness ==
    /\ req.message = "binary search"
    /\ pc = "research.found"
    /\ trace = <<"code", "research">>

\* the pages of the titles that load
Loaded(titles) ==
    {k \in 1..Len(titles) : wikipedia_page(titles[k]).raised = ""}

\* C5: in both lookups, a search of the reference source that raises and a
\* page that raises contribute no candidate, and the web source is queried
\* all the same: the candidates are one per page that loaded followed by one
\* per web result, tagged "web", in the order returned; when the reference
\* source gives none, the list is exactly the n web results.
C5_WebSurvivesReference ==
    (frame.kind \in {"quick", "deep"} /\ ~frame.web_raised) =>
        LET n == Len(frame.web_results)
            w == IF frame.wiki_raised THEN 0
                 ELSE Cardinality(Loaded(frame.wiki_results))
        IN  /\ Len(frame.candidates) = w + n
            /\ \A k \in 1..n :
                  /\ frame.candidates[w + k].source = "web"
                  /\ frame.candidates[w + k].title = frame.web_results[k].title
                  /\ frame.candidates[w + k].body = frame.web_results[k].body
            /\ \A k \in 1..w : frame.candidates[k].source = "wikipedia"

\* the search of the reference source raised and the web source returned
\* as many results as the bound allows
C5_Witness ==
    /\ frame.kind = "deep"
    /\ frame.wiki_raised
    /\ ~frame.web_raised
    /\ Len(frame.web_results) = MaxWebHits
    /\ Len(frame.candidates) = MaxWebHits

\* C6 (as stated): when the lookup of a research request has no candidate
\* and the web-search fallback fails too, the research of MAXY1_2 and of
\* MAXY1_3 ends without an exception, with the no-data message as the
\* response and the confidence 0.40.
C6_NoDataResult ==
    [][(/\ pc \in {"maxy1.2.fallback", "research.fallback"}
        /\ frame.candidates = <<>>
        /\ ~frame.fallback.success)
          => /\ exc' = ""
             /\ Contains(resp', NoDataMessage)
             /\ REq(conf', Rat(40, 100))]_vars

\* the tokens of the name in a query 'Who is <Name>'
NameTokens(query) ==
    LET words == Words(query) IN SubSeq(words, 3, Len(words))

WhoIsName(query) ==
    LET words == Words(query)
    IN  /\ Len(words) >= 3
        /\ words[1] = "Who"
        /\ words[2] = "is"
        /\ \A k \in 3..Len(words) : IsTitleWord(words[k]) /\ words[k] # "Who"

\* C7 (as stated): for a query 'Who is <Name>', score_relevance is exactly
\* 0.1 for every candidate whose title and body hold no token of the name.
C7_IdentityGuard ==
    LET res == frame.candidates[1]
        content == Lower(res.title \o " " \o res.body)
        names == NameTokens(req.message)
    IN  (/\ pc = "scored"
         /\ WhoIsName(req.message)
         /\ \A k \in 1..Len(names) : ~Contains(content, Lower(names[k])))
            => REq(conf, Rat(1, 10))

\* C8: score_relevance returns a value in [0,1] for every query and every
\* candidate, and so does every relevance_score verify_facts attaches.
C8_RelevanceInUnit ==
    /\ pc = "scored" => InUnit(conf)
    /\ pc = "ranked" =>
          \A k \in 1..Len(frame.candidates) :
              InUnit(frame.candidates[k].relevance_score)

\* a query whose keyword list holds a word twice, all of them found in a
\* candidate that draws the junk penalty
C8_Witness ==
    /\ pc = "scored"
    /\ LET keywords == get_keywords(req.message)
       IN  /\ Len(keywords) > Cardinality(Range(keywords))
           /\ REq(conf, Rat(1, 2))
           /\ JunkPenalty(req.message, frame.candidates[1].body)

\* C9: every result ModelRouter.process returns carries a confidence in
\* [0,1].
C9_ConfidenceInUnit ==
    (pc = "done" /\ req.router /\ exc = "") => InUnit(conf)

\* a research report returned through the router, its confidence being the
\* relevance score of the best candidate
C9_Witness ==
    /\ pc = "done"
    /\ req.router
    /\ exc = ""
    /\ req.model = "maxy1.2"
    /\ IsResearch[req.message]
    /\ Contains(produced.text, "Synthesis Confidence")
    /\ conf = produced.confidence

\* C10 (as stated): the confidence returned to the caller is never greater
\* than the confidence of the pair the handler produced.
C10_NeverIncreased ==
    (pc = "done" /\ exc = "" /\ produced # NoPair)
        => RLeq(conf, produced.confidence)

\* the relevance scores of the results handed to get_best_match
MatchScores ==
    {score_relevance(req.message, r.title, r.body) : r \in Range(frame.results)}

\* the highest of them reaches the threshold
TopReaches ==
    \E top \in MatchScores :
        /\ \A s \in MatchScores : RLeq(s, top)
        /\ RLeq(frame.threshold, top)

\* C11: get_best_match returns None when the results are empty or the highest
\* relevance score is strictly below the threshold; otherwise, the highest
\* score being equal to the threshold included, it returns one of the results
\* carrying the highest score.
C11_ThresholdBoundary ==
    pc = "matched" =>
        IF ~TopReaches THEN frame.best_match = None
        ELSE /\ frame.best_match # None
             /\ \A s \in MatchScores : RLeq(s, frame.best_match.relevance_score)
             /\ \E r \in Range(frame.results) :
                    /\ r.title = frame.best_match.title
                    /\ r.body = frame.best_match.body
                    /\ REq(score_relevance(req.message, r.title, r.body),
                           frame.best_match.relevance_score)

\* a match whose score is exactly the threshold, among several results
C11_Witness ==
    /\ pc = "matched"
    /\ Len(frame.results) > 1
    /\ frame.best_match # None
    /\ REq(frame.best_match.relevance_score, frame.threshold)

\* deep_wikipedia_research has returned for candidates that all score below
\* 0.40
AllBelowThreshold ==
    /\ pc \in {"maxy1.2.found", "research.found"}
    /\ frame.candidates # <<>>
    /\ \A k \in 1..Len(frame.candidates) :
          RLess(score_relevance(req.message, frame.candidates[k].title,
                                frame.candidates[k].body), Rat(40, 100))

\* C12: in deep research, when every retrieved candidate scores below 0.40,
\* no candidate is selected and no report is synthesized: the result is an
\* unsuccessful one, the refinement-suggestion message with a confidence
\* between 0.60 and 0.65.
C12_NoRelevantMatch ==
    AllBelowThreshold =>
        LET result == DeepResults[req.message, frame.candidates]
        IN  /\ ~result.success
            /\ ~Contains(result.response, "VERIFIED RESEARCH REPORT")
            /\ RLeq(Rat(60, 100), result.confidence)
            /\ RLeq(result.confidence, Rat(65, 100))

\* MAXY1_2.process_message is about to format the research result
FormatPoint ==
    \/ pc = "maxy1.2.fallback"
    \/ /\ pc = "maxy1.2.found"
       /\ ~fallback_asked(DeepResults[req.message, frame.candidates])

\* the report text format_research_response is given there
FormatInput ==
    with_fallback(DeepResults[req.message, frame.candidates], frame.fallback).response

\* the number of blocks separated by blank lines
NumSections(text) == Len(Split(text, "\n\n"))

\* C13: format_research_response(report, 'deep') returns the report
\* unchanged, and for every report text passed to it the surface output has
\* at most as many sections as the moderate output, which has at most as
\* many as the deep output (compared where the three calls return).
C13_DepthMonotone ==
    FormatPoint =>
        LET surface == Formatted[FormatInput, "surface"]
            moderate == Formatted[FormatInput, "moderate"]
            deep == Formatted[FormatInput, "deep"]
        IN  /\ deep = [raised |-> "", text |-> FormatInput]
            /\ (surface.raised = "" /\ moderate.raised = "") =>
                  /\ NumSections(surface.text) <= NumSections(moderate.text)
                  /\ NumSections(moderate.text) <= NumSections(deep.text)

\* the section of a research report a block is, by its heading
SectionKind(block) ==
    IF StartsAt(block, 1, "**VERIFIED RESEARCH REPORT") THEN "header"
    ELSE IF StartsAt(block, 1, "### I. ") THEN "overview"
    ELSE IF StartsAt(block, 1, "### II. ") THEN "insights"
    ELSE IF StartsAt(block, 1, "### III. ") THEN "narrative"
    ELSE IF StartsAt(block, 1, "### IV. ") THEN "conclusion"
    ELSE IF StartsAt(block, 1, "**REFERENCE INDICES**") THEN "references"
    ELSE "other"

\* the headed sections of a text, in order
SectionKinds(text) ==
    LET blocks == Split(text, "\n\n")
        kinds == [k \in 1..Len(blocks) |-> SectionKind(Strip(blocks[k]))]
    IN  SelectIdx(kinds, {k \in 1..Len(blocks) : kinds[k] # "other"})

\* C14: for a report synthesized by deep research the surface output
\* consists of exactly the header, overview and references sections, the
\* moderate output of exactly the header, overview, insights, narrative and
\* references sections; the conclusion appears only in the deep output.
C14_SectionsByDepth ==
    (FormatPoint /\ StartsAt(FormatInput, 1, "**VERIFIED RESEARCH REPORT")) =>
        /\ SectionKinds(Formatted[FormatInput, "surface"].text)
              = <<"header", "overview", "references">>
        /\ SectionKinds(Formatted[FormatInput, "moderate"].text)
              = <<"header", "overview", "insights", "narrative", "references">>
        /\ InList("conclusion", SectionKinds(Formatted[FormatInput, "deep"].text))

\* the handlers of the MAXY1_3 cascade whose results are technical or
\* research results
StructuredHandlers == {"code", "website", "chart", "stock", "file", "research"}

\* C15: the style collaborator leaves every result that is not conversational
\* as it is: under MAXY1_3 the response of the code-search, website, chart,
\* stock, file-intelligence or research handler is returned as the handler
\* produced it, under MAXY1_1 a knowledge-lookup result is returned as bounded
\* to three sentences, and under MAXY1_2 a research result as formatted,
\* whatever the slang toggle state.
C15_StyleOnlyConversational ==
    [][/\ (pc = "result" /\ resp # "" /\ Last(trace) \in StructuredHandlers)
            => resp' = resp
       /\ (pc = "maxy1.1.found" /\ QuickResults[req.message, frame.candidates] # "")
            => resp' = BoundSentences(Adjusted11(produced', req.message,
                                                 req.history).text)
       /\ (FormatPoint /\ exc' = "")
            => resp' = Formatted[FormatInput,
                                 Context12[req.message, req.history].inquiry_depth].text
      ]_vars

\* MAXY1_1.process_message has returned a result
Returned11 == pc = "done" /\ exc = "" /\ req.model = "maxy1.1"

C17_FiveToTenSentences ==
    (pc = "done" /\ exc = "" /\ req.model = "maxy1.2" /\ ~IsResearch[req.message]) =>
        /\ 5 <= Len(Split(resp, ". "))
        /\ Len(Split(resp, ". ")) <= 10

\* the handlers the declared order puts before the greeting handler
BeforeGreeting ==
    {"weather", "time_date", "code", "website", "chart", "stock", "file",
     "joke", "research", "conversation"}

\* MAXY1_3 has returned a result for a message with the greeting intent for
\* which no guard of a handler of higher priority holds
GreetingAnswered ==
    /\ pc = "done"
    /\ exc = ""
    /\ req.model = "maxy1.3"
    /\ Intent13[req.message].intents.greeting
    /\ \A h \in BeforeGreeting : ~Guards13[h, req.message, req.file_data]

\* C18: under MAXY1_3, for 'hello' and any message for which the greeting
\* guard holds and no guard of higher priority does, the greeting handler
\* produces the response without any external source having been called, with
\* a confidence in [0.96, 0.99] and a text asking what the user needs.
C18_GreetingBeforeRetrieval ==
    GreetingAnswered =>
        /\ trace = <<"greeting">>
        /\ calls = <<>>
        /\ RLeq(Rat(96, 100), conf) /\ RLeq(conf, Rat(99, 100))
        /\ Contains(resp, "What shall we tackle today?")

\* 'hello' with an empty history, answered by the greeting handler
C18_Witness ==
    /\ GreetingAnswered
    /\ req.message = "hello"
    /\ req.history = <<>>
    /\ trace = <<"greeting">>

\* no flag of the MAXY1_3 intent analysis is set
NoIntentFlag(analysis) ==
    /\ \A i \in DOMAIN analysis.intents : ~analysis.intents[i]
    /\ \A t \in DOMAIN analysis.topics : ~analysis.topics[t]
    /\ ~analysis.is_research /\ ~analysis.is_code
    /\ ~analysis.is_chart /\ ~analysis.is_website

\* C19: for an empty or whitespace-only message the intent analysis sets no
\* flag and, for every outcome of the external sources, MAXY1_3.process_message
\* returns the generic templated prompt of the default handler with
\* confidence 0.85.
C19_EmptyFallsThrough ==
    (pc = "done" /\ exc = "" /\ req.model = "maxy1.3" /\ Strip(req.message) = "") =>
        /\ NoIntentFlag(Intent13[req.message])
        /\ trace # <<>> /\ Last(trace) = "final"
        /\ Contains(resp, "I'm here to help with your project")
        /\ REq(conf, Rat(85, 100))

\* how many times a collaborator was called in the request in progress
CallCount(name) == Cardinality({k \in 1..Len(calls) : calls[k] = name})

\* C20: within one call of process_message, of any tier, the reference
\* search and the web search are each issued at most once, whatever their
\* outcomes and whichever handlers are evaluated.
C20_NoRetry ==
    /\ CallCount("wikipedia.search") <= 1
    /\ CallCount("DDGS.text") <= 1

(***************************************************************************)
(* C21: intent classification is deterministic and free of side effects:   *)
(* two calls of MAXY1_1.analyze_user_intent, MAXY1_2.is_research_query or  *)
(* MAXY1_3.analyze_user_intent with the same message return the same       *)
(* descriptor, whatever the slang flag was at each call, and no call of an *)
(* external source is made.                                                *)
(***************************************************************************)
Classifiers ==
    {"MAXY1_1.analyze_user_intent", "MAXY1_2.is_research_query",
     "MAXY1_3.analyze_user_intent"}

SameCall(i, j) ==
    /\ trace[i].fn \in Classifiers
    /\ trace[i].fn = trace[j].fn
    /\ trace[i].message = trace[j].message

Routed == pc = "idle" /\ pc' # "idle" /\ req'.router

\* the router answers by itself: the call is over, no handler was entered
\* and no source was called
SystemAnswer(text) ==
    /\ pc' = "done"
    /\ resp' = text
    /\ conf' = Rat(1, 1)
    /\ exc' = ""
    /\ trace' = <<>>
    /\ calls' = <<>>

ToggleStep ==
    /\ Routed /\ toggle_command(req'.message) = "enable"
          => /\ slang_on'
             /\ \E slang \in Range(Slangs) : SystemAnswer(EnableText(slang))
    /\ Routed /\ toggle_command(req'.message) = "disable"
          => /\ ~slang_on'
             /\ SystemAnswer(DisableText)
    /\ ~(Routed /\ toggle_command(req'.message) # "")
          => slang_on' = slang_on

BeforeStyling ==
    IF req.model = "maxy1.3" THEN resp
    ELSE IF req.model = "maxy1.2" THEN PadSentences(produced'.text)
    ELSE BoundSentences(Adjusted11(produced', req.message, req.history).text)

\* a step in which a tier returns a text that went through its styling
StylingStep ==
    /\ exc' = ""
    /\ \/ pc = "result"
       \/ req.model = "maxy1.1" /\ pc # "done" /\ pc' = "done"
       \/ pc = "maxy1.2" /\ ~IsResearch[req.message] /\ pc' = "done"

Unstyled ==
    (StylingStep /\ ~slang_on /\ ~UseSlang[req.message])
        => /\ resp' = BeforeStyling
           /\ enhance_text(BeforeStyling, slang_on, UseSlang[req.message])
                  = {BeforeStyling}
           /\ random_slang(slang_on, UseSlang[req.message]) = {"friend"}

C23_DisabledLeavesText == [][Unstyled]_vars

\* a reply of MAXY1_1 that is no greeting went through enhance_text with
\* the flag off and no slang in the message
C23_Witness ==
    /\ Returned11
    /\ ~slang_on
    /\ ~UseSlang[req.message]
    /\ ~Intent11[req.message].greeting
    /\ ~Intent11[req.message].is_new_user
    /\ resp # ""

(***************************************************************************)
(* C24: depth classification is first-match-wins over the order surface,   *)
(* moderate, deep, with default surface: a message with a surface          *)
(* indicator is surface whatever else it holds, a message with a moderate  *)
(* indicator and no surface indicator is moderate, a message with only     *)
(* deep indicators is deep, and a message without indicator is surface.    *)
(***************************************************************************)
\* the message of a call holds an indicator of the list
Holds(call, indicators) ==
    \E k \in 1..Len(indicators) :
        Occurrences(Strip(Lower(call.message)), indicators[k]) # {}

\* the depth a call of a depth classifier returned
DepthOf(call) ==
    IF call.fn = "MAXY1_3.analyze_user_intent" THEN call.descriptor.depth
    ELSE call.descriptor.inquiry_depth

DepthCalls ==
    {k \in 1..Len(trace) :
        trace[k].fn \in {"MAXY1_3.analyze_user_intent",
                         "MAXY1_2.analyze_conversation_context"}}

C24_DepthFirstMatch ==
    \A k \in DepthCalls :
        /\ Holds(trace[k], SurfaceIndicators) => DepthOf(trace[k]) = "surface"
        /\ (Holds(trace[k], ModerateIndicators)
            /\ ~Holds(trace[k], SurfaceIndicators))
              => DepthOf(trace[k]) = "moderate"
        /\ (Holds(trace[k], DeepIndicators)
            /\ ~Holds(trace[k], SurfaceIndicators)
            /\ ~Holds(trace[k], ModerateIndicators))
              => DepthOf(trace[k]) = "deep"
        /\ (~Holds(trace[k], SurfaceIndicators)
            /\ ~Holds(trace[k], ModerateIndicators)
            /\ ~Holds(trace[k], DeepIndicators))
              => DepthOf(trace[k]) = "surface"

\* both classifiers were called, one with a message that holds a surface
\* and a deep indicator, one with a moderate and a deep indicator
C24_Witness ==
    \E i \in DepthCalls, j \in DepthCalls :
        /\ trace[i].fn # trace[j].fn
        /\ Holds(trace[i], SurfaceIndicators) /\ Holds(trace[i], DeepIndicators)
        /\ DepthOf(trace[i]) = "surface"
        /\ Holds(trace[j], ModerateIndicators) /\ Holds(trace[j], DeepIndicators)
        /\ ~Holds(trace[j], SurfaceIndicators)
        /\ DepthOf(trace[j]) = "moderate"

(***************************************************************************)
(* C25: score_relevance halves the keyword-overlap score when the body     *)
(* holds a low-quality-source indicator, except when the query itself asks *)
(* for that domain: for a query that names the indicator found in the body *)
(* (such as 'reddit') the penalty is not applied.                          *)
(***************************************************************************)
\* the query names an indicator the body holds
AsksForDomain(query, body) ==
    \E k \in 1..Len(JunkIndicators) :
        /\ Contains(Lower(query), JunkIndicators[k])
        /\ Contains(Lower(body), JunkIndicators[k])

\* score_relevance has returned the overlap score or its half
OverlapScored ==
    /\ pc = "scored"
    /\ Len(get_keywords(req.message)) > 0
    /\ ~IdentityGuard(req.message,
                      Lower(frame.candidates[1].title \o " "
                            \o frame.candidates[1].body))

C25_PenaltyUnlessAsked ==
    LET res == frame.candidates[1]
        score == OverlapScore(get_keywords(req.message),
                              Lower(res.title \o " " \o res.body))
    IN  OverlapScored =>
           IF /\ ContainsAny(Lower(res.body), JunkIndicators)
              /\ ~AsksForDomain(req.message, res.body)
           THEN REq(conf, RHalf(score))
           ELSE REq(conf, score)

(***************************************************************************)
(* C26: a candidate with an empty body is excluded before scoring: it is   *)
(* not among the candidates handed to verify_facts / get_best_match, and   *)
(* it is never the best match of quick_wikipedia_lookup or the candidate   *)
(* deep_wikipedia_research synthesizes its report from.                    *)
(***************************************************************************)
C26_EmptyBodyExcluded ==
    pc = "looked" =>
        /\ \A k \in 1..Len(frame.candidates) : frame.candidates[k].body # ""
        /\ frame.best_match # None => frame.best_match.body # ""

(***************************************************************************)
(* C27: when fetching a title reports a disambiguation, the retriever      *)
(* takes the first offered option, fetches it and continues: an ambiguous  *)
(* title whose first option can be fetched contributes that option as a    *)
(* candidate.                                                              *)
(***************************************************************************)
\* the search returned a title whose page is a disambiguation, and the
\* first option of the disambiguation has a page
AmbiguousTopic ==
    /\ pc = "looked"
    /\ ~frame.wiki_raised
    /\ \E k \in 1..Len(frame.wiki_results) :
          wikipedia_page(frame.wiki_results[k]).raised = "DisambiguationError"
    /\ wikipedia_page(DisambiguationOptions[1]).raised = ""

C27_FirstOptionTaken ==
    AmbiguousTopic =>
        \E k \in 1..Len(frame.candidates) :
            /\ frame.candidates[k].source = "wikipedia"
            /\ frame.candidates[k].title
                  = wikipedia_page(DisambiguationOptions[1]).page.title

(***************************************************************************)
(* C28: format_research_response only includes or omits sections: for      *)
(* every text passed to it (a synthesized report, a web-search report, a   *)
(* one-paragraph failure message) and every depth it returns without       *)
(* raising, and the sections of its output are a subsequence of the        *)
(* sections of its input: in the original order, none repeated.            *)
(***************************************************************************)
\* a is b with some elements left out
RECURSIVE IsSubsequence(_, _)
IsSubsequence(a, b) ==
    IF Len(a) = 0 THEN TRUE
    ELSE IF Len(b) = 0 THEN FALSE
    ELSE IF a[1] = b[1] THEN IsSubsequence(Tail(a), Tail(b))
    ELSE IsSubsequence(a, Tail(b))

OnlyOmits(raw_response, out) ==
    /\ out.raised = ""
    /\ IsSubsequence(Split(out.text, "\n\n"), Split(raw_response, "\n\n"))

C28_SectionsOnlyOmitted ==
    FormatPoint =>
        \A depth \in Depths : OnlyOmits(FormatInput, Formatted[FormatInput, depth])

(***************************************************************************)
(* C29: in MAXY1_1 and in the conversation mode of MAXY1_2 the slang       *)
(* handler answers only messages that hold a slang key as a whole word:    *)
(* with slang disabled, a greeting without such a word (as 'hello') gets   *)
(* None from handle_conversational_slang and its reply is not one of the   *)
(* slang replies.                                                          *)
(***************************************************************************)
\* a key of the greetings map stands in the message as a whole word
HoldsSlangKey(message) ==
    \E k \in 1..Len(GreetingKeys) :
        ContainsWord(Strip(Lower(message)), GreetingKeys[k])

\* MAXY1_1 or MAXY1_2 has answered a message without slang key
PlainAnswered ==
    /\ pc = "done"
    /\ exc = ""
    /\ req.model \in {"maxy1.1", "maxy1.2"}
    /\ toggle_command(req.message) = ""
    /\ ~slang_on
    /\ ~HoldsSlangKey(req.message)

C29_SlangNeedsWholeWord ==
    PlainAnswered =>
        /\ handle_conversational_slang(req.message) = ""
        /\ produced.text \notin Range(GreetingReplies)

(***************************************************************************)
(* C30: for every user and every sequence of get_or_create_user,           *)
(* use_credit and get_user_credits calls at non-decreasing times,          *)
(* 0 <= credits_remaining <= MAX_CREDITS_PER_USER; use_credit succeeds     *)
(* exactly when credits_remaining > 0 after any due refresh, and then      *)
(* takes one credit and counts one message; otherwise it fails and leaves  *)
(* both numbers as they were; credits rise to the maximum only when they   *)
(* were below it and CREDIT_REFRESH_HOURS have passed since last_reset.    *)
(***************************************************************************)
CreditsInRange ==
    \A user_id \in UserIds :
        credits_data[user_id] # None =>
            /\ credits_data[user_id].credits_remaining >= 0
            /\ credits_data[user_id].credits_remaining <= MAX_CREDITS_PER_USER

\* a refresh of the user is due at the time of the call
RefreshDue(user_id) ==
    /\ credits_data[user_id] # None
    /\ credits_data[user_id].credits_remaining < MAX_CREDITS_PER_USER
    /\ utcnow - credits_data[user_id].last_reset >= CREDIT_REFRESH_HOURS

\* the credits and the messages of the user when the call starts, a new
\* user and a due refresh taken into account
Available(user_id) ==
    IF credits_data[user_id] = None \/ RefreshDue(user_id)
    THEN MAX_CREDITS_PER_USER
    ELSE credits_data[user_id].credits_remaining

Sent(user_id) ==
    IF credits_data[user_id] = None THEN 0
    ELSE credits_data[user_id].total_messages_sent

UseCreditStep ==
    (pc = "idle" /\ pc' = "called" /\ frame'.kind = "use_credit") =>
        LET user_id == frame'.user_id
            after == credits_data'[user_id]
        IN  /\ frame'.success <=> Available(user_id) > 0
            /\ frame'.success =>
                  /\ after.credits_remaining = Available(user_id) - 1
                  /\ after.total_messages_sent = Sent(user_id) + 1
            /\ ~frame'.success =>
                  /\ after.credits_remaining = credits_data[user_id].credits_remaining
                  /\ after.total_messages_sent = Sent(user_id)

\* the credits of a known user rise only by a due refresh, and a call
\* touches the entry of its own user only
RefreshStep ==
    \A user_id \in UserIds :
        /\ (/\ credits_data[user_id] # None
            /\ credits_data'[user_id].credits_remaining
                  > credits_data[user_id].credits_remaining)
              => /\ RefreshDue(user_id)
                 /\ credits_data'[user_id].last_reset = utcnow
                 /\ credits_data'[user_id].credits_remaining
                       >= MAX_CREDITS_PER_USER - 1
        /\ (pc' = "called" /\ frame'.user_id # user_id)
              => credits_data'[user_id] = credits_data[user_id]

C30_CreditAccounting ==
    /\ []CreditsInRange
    /\ [][UseCreditStep /\ RefreshStep]_vars

\* a use_credit has succeeded for a user who has sent more messages than
\* the maximum: the credits were refreshed after the refresh time
C30_Witness ==
    \E user_id \in UserIds :
        /\ pc = "called"
        /\ frame.kind = "use_credit"
        /\ frame.user_id = user_id
        /\ frame.success
        /\ credits_data[user_id].total_messages_sent > MAX_CREDITS_PER_USER
        /\ credits_data[user_id].last_reset > 0
====
